---- MODULE Spec2Model ----
(***************************************************************************)
(* A model of switchHelper (src/index.js): the recursive file matcher      *)
(* FindInLocation, the report builder SwitchReport and the CSV-to-file     *)
(* reconciliation pass MatchFilesToCsvData.                                *)
(*                                                                         *)
(* JavaScript strings are modelled as sequences of one-character strings,  *)
(* so that lower-casing, searching and path parsing are computed and not   *)
(* assumed.  Option keywords ("full", "files", ...) are only ever compared *)
(* for equality and are kept as TLA+ strings.                              *)
(***************************************************************************)
EXTENDS Integers, Sequences, FiniteSets, TLC

VARIABLES
    fsys,        \* the file system: the tree under "/" and the content of its files
    findCall,    \* arguments of the last FindInLocation call
    findResult,  \* the promise that call returned (its state, response, I/O log)
    matchCall,   \* arguments of the last MatchFilesToCsvData call
    matchResult, \* what that call left behind: outcome, table in memory, report, row events
    csvResult,   \* the last new CsvProcessor(...): its arguments, its promise, its saveTo
    configResult,\* the last GetGlobalSwitchConfig(): the environment value and what it did
    switchReport,\* a SwitchReport object, the rows added to it and what it sent
    host         \* the last call of a function that works on the Switch job or on
                 \* temporary files: its arguments, and the calls it made on the job

vars == <<fsys, findCall, findResult, matchCall, matchResult, csvResult, configResult,
          switchReport, host>>

\* The variables of the calls that only read the file system, and the report
fileVars == <<fsys, findCall, findResult, matchCall, matchResult, csvResult, configResult,
              switchReport>>

(***************************************************************************)
(* Bounds of the model.                                                    *)
(***************************************************************************)
MaxDepth == 2      \* FindInLocation is called with depth in 0..MaxDepth
MaxRules == 2      \* MatchFilesToCsvData is called with at most MaxRules rules
MaxReportRows == 3 \* at most MaxReportRows add...Row and generateHtmlReportAsFile calls
                   \* are made on a SwitchReport before it is sent

(***************************************************************************)
(* JavaScript values.                                                      *)
(***************************************************************************)
Undefined == "%undefined%"

JUndef   == [t |-> "undef", b |-> FALSE, k |-> "", a |-> <<>>]
JBool(b) == [t |-> "bool",  b |-> b,     k |-> "", a |-> <<>>]
JStr(k)  == [t |-> "str",   b |-> FALSE, k |-> k,  a |-> <<>>]
JArr(a)  == [t |-> "arr",   b |-> FALSE, k |-> "", a |-> a]

\* ToBoolean
Truthy(v) ==
    CASE v.t = "undef" -> FALSE
      [] v.t = "bool"  -> v.b
      [] v.t = "str"   -> v.k # ""
      [] v.t = "arr"   -> TRUE

\* typeof v
TypeOf(v) ==
    CASE v.t = "undef" -> "undefined"
      [] v.t = "bool"  -> "boolean"
      [] v.t = "str"   -> "string"
      [] v.t = "arr"   -> "object"

\* v.length of a string or an array; the keywords used as strings are never
\* empty unless they are ""
JLength(v) ==
    CASE v.t = "arr" -> Len(v.a)
      [] v.t = "str" -> IF v.k = "" THEN 0 ELSE 1
      [] OTHER       -> 0

\* A value that is a number and not a string is its digits after this mark
NumberTag == "%number%"

\* A value that is a boolean and not a string is its name after this mark
BooleanTag == "%boolean%"

\* typeof v === "string" for a text, a number, a boolean or undefined
IsString(v) == v = <<>> \/ Head(v) \notin {Undefined, NumberTag, BooleanTag}

(***************************************************************************)
(* Strings.                                                                *)
(***************************************************************************)
\* The lower-case form of every upper-case letter
UpperToLower ==
    ("A" :> "a") @@ ("B" :> "b") @@ ("C" :> "c") @@ ("D" :> "d") @@ ("E" :> "e") @@ ("F" :> "f") @@
    ("G" :> "g") @@ ("H" :> "h") @@ ("I" :> "i") @@ ("J" :> "j") @@ ("K" :> "k") @@ ("L" :> "l") @@
    ("M" :> "m") @@ ("N" :> "n") @@ ("O" :> "o") @@ ("P" :> "p") @@ ("Q" :> "q") @@ ("R" :> "r") @@
    ("S" :> "s") @@ ("T" :> "t") @@ ("U" :> "u") @@ ("V" :> "v") @@ ("W" :> "w") @@ ("X" :> "x") @@
    ("Y" :> "y") @@ ("Z" :> "z")

LowerChar(c) == IF c \in DOMAIN UpperToLower THEN UpperToLower[c] ELSE c

\* String.prototype.toLowerCase
toLowerCase(s) == [i \in 1..Len(s) |-> LowerChar(s[i])]

\* s.replaceAll(" ", "")
RECURSIVE StripSpaces(_)
StripSpaces(s) ==
    IF s = <<>> THEN <<>>
    ELSE IF Head(s) = " " THEN StripSpaces(Tail(s))
    ELSE <<Head(s)>> \o StripSpaces(Tail(s))

\* One pattern character of new RegExp(needle) against one character of the
\* subject: "." is the wildcard, every other character of the alphabet used
\* here stands for itself.
RegExpCharMatches(p, c) == p = "." \/ p = c

\* Whether new RegExp(needle) matches hay at 1-based position i.
RegExpMatchesAt(hay, needle, i) ==
    /\ i + Len(needle) - 1 <= Len(hay)
    /\ \A k \in 1..Len(needle) : RegExpCharMatches(needle[k], hay[i + k - 1])

\* String.prototype.search(needle): the argument is converted with
\* new RegExp(needle); the 0-based index of the first match, or -1.
StrSearch(hay, needle) ==
    LET hits == {i \in 1..(Len(hay) + 1) : RegExpMatchesAt(hay, needle, i)}
    IN  IF hits = {} THEN -1
        ELSE (CHOOSE i \in hits : \A j \in hits : i <= j) - 1

(***************************************************************************)
(* path (node:path).                                                       *)
(***************************************************************************)
Max(S) == CHOOSE x \in S : \A y \in S : y <= x

\* The path without the separators it ends with; path.parse ignores them
RECURSIVE StripTrailingSep(_)
StripTrailingSep(p) ==
    IF p # <<>> /\ p[Len(p)] = "/" THEN StripTrailingSep(SubSeq(p, 1, Len(p) - 1)) ELSE p

\* path.parse(p).base: what follows the last "/", trailing separators ignored
PathBase(p) ==
    LET q == StripTrailingSep(p)
        sl == {i \in 1..Len(q) : q[i] = "/"}
    IN  IF sl = {} THEN q ELSE SubSeq(q, Max(sl) + 1, Len(q))

\* Position of the dot that starts the extension of a base name, or 0: there
\* is none when the name has no dot, when its only candidate is the first
\* character, or when the name is "..".
ExtStart(base) ==
    LET dots == {i \in 1..Len(base) : base[i] = "."}
    IN  IF dots = {} THEN 0
        ELSE LET d == Max(dots)
             IN  IF d = 1 \/ (base[1] = "." /\ d = 2 /\ Len(base) = 2)
                 THEN 0 ELSE d

\* Whether p is ".." right under the root ("/..", separators after it or
\* not).  path.parse looks for the start of the base name from the end of the
\* path and stops before the separator of the root, so that here the start
\* stays unset (0) and the test for ".." (the last dot one place after the
\* start) fails: the second dot is taken for an extension.
RootDotDot(p) == StripTrailingSep(p) = <<"/", ".", ".">>

\* path.parse(p).ext
PathExt(p) ==
    LET base == PathBase(p)
        d == ExtStart(base)
    IN  IF RootDotDot(p) THEN <<".">>
        ELSE IF d = 0 THEN <<>> ELSE SubSeq(base, d, Len(base))

\* path.parse(p).name
PathName(p) ==
    LET base == PathBase(p)
        d == ExtStart(base)
    IN  IF RootDotDot(p) THEN <<".">>
        ELSE IF d = 0 THEN base ELSE SubSeq(base, 1, d - 1)

\* s.replaceAll(from, to) for a one-character from and to
ReplaceAll(s, from, to) == [i \in 1..Len(s) |-> IF s[i] = from THEN to ELSE s[i]]

Min(S) == CHOOSE x \in S : \A y \in S : x <= y

\* p.split("/"): the parts between the separators, empty ones included
RECURSIVE SplitPath(_)
SplitPath(p) ==
    LET sl == {i \in 1..Len(p) : p[i] = "/"}
    IN  IF sl = {} THEN <<p>>
        ELSE <<SubSeq(p, 1, Min(sl) - 1)>> \o SplitPath(SubSeq(p, Min(sl) + 1, Len(p)))

\* parts.join("/")
RECURSIVE JoinPath(_)
JoinPath(parts) ==
    IF parts = <<>> THEN <<>>
    ELSE IF Len(parts) = 1 THEN Head(parts)
    ELSE Head(parts) \o <<"/">> \o JoinPath(Tail(parts))

\* The parts of a path as path.normalize leaves them: empty parts and "."
\* are dropped, ".." takes the part before it away (and stays when a
\* relative path has none left)
RECURSIVE NormalizeParts(_, _, _)
NormalizeParts(parts, out, absolute) ==
    IF parts = <<>> THEN out
    ELSE LET part == Head(parts)
         IN  IF part = <<>> \/ part = <<".">>
             THEN NormalizeParts(Tail(parts), out, absolute)
             ELSE IF part # <<".", ".">>
             THEN NormalizeParts(Tail(parts), Append(out, part), absolute)
             ELSE IF out # <<>> /\ out[Len(out)] # <<".", ".">>
             THEN NormalizeParts(Tail(parts), SubSeq(out, 1, Len(out) - 1), absolute)
             ELSE IF absolute THEN NormalizeParts(Tail(parts), out, absolute)
             ELSE NormalizeParts(Tail(parts), Append(out, part), absolute)

\* path.normalize(p) (posix)
PathNormalize(p) ==
    LET Finish(body, absolute, trailing) ==
            LET body1 == IF body = <<>> /\ ~absolute THEN <<".">> ELSE body
                body2 == IF body1 # <<>> /\ trailing THEN body1 \o <<"/">> ELSE body1
            IN  IF absolute THEN <<"/">> \o body2 ELSE body2
    IN  IF p = <<>> THEN <<".">>
        ELSE Finish(JoinPath(NormalizeParts(SplitPath(p), <<>>, p[1] = "/")),
                    p[1] = "/", p[Len(p)] = "/")

\* The arguments of path.join that are not empty, in their order
RECURSIVE NonEmptyParts(_)
NonEmptyParts(parts) ==
    IF parts = <<>> THEN <<>>
    ELSE IF Head(parts) = <<>> THEN NonEmptyParts(Tail(parts))
    ELSE <<Head(parts)>> \o NonEmptyParts(Tail(parts))

\* path.join(a, b, c) (posix): the non-empty arguments joined with "/" and
\* normalized; "." when there is none
PathJoinAll(a, b, c) == PathNormalize(JoinPath(NonEmptyParts(<<a, b, c>>)))

\* path.join(a, b).replaceAll("\\", "/") of line 474
PathJoin(a, b) == ReplaceAll(PathJoinAll(a, b, <<>>), "\\", "/")

\* path.parse(p).dir: a path of separators only is the root, and so is its dir
PathDir(p) ==
    LET q == StripTrailingSep(p)
        sl == {i \in 1..Len(q) : q[i] = "/"}
    IN  IF p # <<>> /\ q = <<>> THEN <<"/">>
        ELSE IF sl = {} THEN <<>>
        ELSE IF Max(sl) = 1 THEN <<"/">>
        ELSE SubSeq(q, 1, Max(sl) - 1)

(***************************************************************************)
(* The file system (node:fs).  A directory is the sequence of its entries  *)
(* in the order readdirSync lists them, which is the order of their names' *)
(* bytes; an entry is a file, a directory with its own entries, or a       *)
(* symbolic link.  fs.root is the content of the directory "/", and        *)
(* fs.data the path and the text of every file that holds some.            *)
(***************************************************************************)
File(n)   == [name |-> n, kind |-> "file", children |-> <<>>]
Dir(n, c) == [name |-> n, kind |-> "dir",  children |-> c]
\* A symbolic link to a file that is kept outside these directories
Link(n)   == [name |-> n, kind |-> "link", children |-> <<>>]

\* fs.Dirent.isDirectory / isFile: both are false for a symbolic link
isDirectory(dirent) == dirent.kind = "dir"
isFile(dirent)      == dirent.kind = "file"

ScanRoot    == <<"/", "s">>
MissingPath == <<"/", "m">>
CsvDir      == <<"/", "d">>
CsvPath     == <<"/", "d", "/", "t", ".", "c", "s", "v">>
TxtPath     == <<"/", "d", "/", "t", ".", "t", "x", "t">>
MissingCsv  == <<"/", "d", "/", "m", ".", "c", "s", "v">>
OtherRoot   == <<"/", "r">>

\* Full paths of every entry below the directory `dir` whose path is `prefix`
RECURSIVE AllPaths(_, _)
AllPaths(dir, prefix) ==
    UNION { LET p == prefix \o <<"/">> \o dir[i].name
            IN  {p} \cup (IF isDirectory(dir[i]) THEN AllPaths(dir[i].children, p) ELSE {})
          : i \in 1..Len(dir) }

\* The printable characters in the order of their codes, the space (32)
\* first; the place of the grave accent (96) is left empty
AsciiPrintable ==
    <<" ", "!", "\"", "#", "$", "%", "&", "'", "(", ")", "*", "+", ",", "-", ".", "/",
      "0", "1", "2", "3", "4", "5", "6", "7", "8", "9", ":", ";", "<", "=", ">", "?", "@",
      "A", "B", "C", "D", "E", "F", "G", "H", "I", "J", "K", "L", "M", "N", "O", "P", "Q",
      "R", "S", "T", "U", "V", "W", "X", "Y", "Z", "[", "\\", "]", "^", "_", "",
      "a", "b", "c", "d", "e", "f", "g", "h", "i", "j", "k", "l", "m", "n", "o", "p", "q",
      "r", "s", "t", "u", "v", "w", "x", "y", "z", "{", "|", "}", "~">>

CharCode(c) == CHOOSE i \in 1..Len(AsciiPrintable) : AsciiPrintable[i] = c

\* Whether the name a is listed before the name b: readdirSync gives the
\* names of a directory sorted by their bytes
RECURSIVE NameBefore(_, _)
NameBefore(a, b) ==
    IF b = <<>> THEN FALSE
    ELSE IF a = <<>> THEN TRUE
    ELSE IF Head(a) = Head(b) THEN NameBefore(Tail(a), Tail(b))
    ELSE CharCode(Head(a)) < CharCode(Head(b))

\* The entries of a directory with one more entry, at its place in the order
InsertEntry(dir, entry) ==
    LET k == Cardinality({i \in 1..Len(dir) : NameBefore(dir[i].name, entry.name)})
    IN  SubSeq(dir, 1, k) \o <<entry>> \o SubSeq(dir, k + 1, Len(dir))

\* The entries of a directory once `leaf` exists under the names in `parts`
\* (the last of them its own): an entry that is there already stays as it is,
\* and a directory on the way that is missing is there as well
RECURSIVE PutEntry(_, _, _)
PutEntry(dir, parts, leaf) ==
    LET hits == {i \in 1..Len(dir) : dir[i].name = Head(parts)}
    IN  IF Len(parts) = 1
        THEN IF hits = {} THEN InsertEntry(dir, leaf) ELSE dir
        ELSE IF hits = {}
        THEN InsertEntry(dir, Dir(Head(parts), PutEntry(<<>>, Tail(parts), leaf)))
        ELSE IF ~isDirectory(dir[Min(hits)]) THEN dir
        ELSE [dir EXCEPT ![Min(hits)].children = PutEntry(@, Tail(parts), leaf)]

\* The entries of a directory without the entry under the names in `parts`
RECURSIVE RemoveEntry(_, _)
RemoveEntry(dir, parts) ==
    LET hits == {i \in 1..Len(dir) : dir[i].name = Head(parts)}
    IN  IF hits = {} THEN dir
        ELSE IF Len(parts) = 1
        THEN SubSeq(dir, 1, Min(hits) - 1) \o SubSeq(dir, Min(hits) + 1, Len(dir))
        ELSE [dir EXCEPT ![Min(hits)].children = RemoveEntry(@, Tail(parts))]

\* The names in an absolute path without "." and ".." in it
PathNames(p) == NormalizeParts(SplitPath(p), <<>>, TRUE)

\* The directory "/"
RootDir(fs) == Dir(<<>>, fs.root)

\* A file system with nothing in it
EmptyFs == [root |-> <<>>, data |-> <<>>]

\* What a path that leads nowhere resolves to
NoEntry == [name |-> <<>>, kind |-> "none", children |-> <<>>]

\* The entries gone through along the parts of a path, from those on the
\* stack (the root first), the entry the path leads to last: "" and "." stay,
\* ".." goes back, a name goes to the entry of that name.  A name that is not
\* there ends the walk with NoEntry (ENOENT), and a part that follows an
\* entry which is not a directory ends it with the kind "notdir" (ENOTDIR).
RECURSIVE Walk(_, _)
Walk(stack, parts) ==
    IF parts = <<>> THEN stack
    ELSE LET here == stack[Len(stack)]
             part == Head(parts)
             hits == {i \in 1..Len(here.children) : here.children[i].name = part}
         IN  IF ~isDirectory(here) THEN Append(stack, [NoEntry EXCEPT !.kind = "notdir"])
             ELSE IF part = <<>> \/ part = <<".">> THEN Walk(stack, Tail(parts))
             ELSE IF part = <<".", ".">>
             THEN Walk(IF Len(stack) > 1 THEN SubSeq(stack, 1, Len(stack) - 1) ELSE stack,
                       Tail(parts))
             ELSE IF hits = {} THEN Append(stack, NoEntry)
             ELSE Walk(Append(stack, here.children[Min(hits)]), Tail(parts))

\* The walk of the path p from the root, which is the working directory too
Resolve(fs, p) == Walk(<<RootDir(fs)>>, SplitPath(p))

Top(stack) == stack[Len(stack)]

\* The path of the entry a walk ended at, by the names gone through
StackPath(stack) ==
    IF Len(stack) = 1 THEN <<"/">> ELSE JoinPath([i \in 1..Len(stack) |-> stack[i].name])

\* What fs.statSync(p) finds (a symbolic link is followed to its file)
statSync(fs, p) ==
    LET Stat(found) == IF found.kind = "link" THEN File(found.name) ELSE found
    IN  IF p = <<>> THEN NoEntry ELSE Stat(Top(Resolve(fs, p)))

\* fs.existsSync
existsSync(fs, p) == statSync(fs, p).kind \notin {"none", "notdir"}

\* fs.readdirSync(p, {withFileTypes: true}): the entries, or the code of the
\* error thrown
readdirSync(fs, p) ==
    LET Read(found) ==
            IF found.kind \in {"none", "notdir"}
            THEN [error |-> IF found.kind = "none" THEN "ENOENT" ELSE "ENOTDIR", entries |-> <<>>]
            ELSE IF ~isDirectory(found) THEN [error |-> "ENOTDIR", entries |-> <<>>]
            ELSE [error |-> "", entries |-> found.children]
    IN  Read(statSync(fs, p))

\* Where an entry that p names and that does not exist yet is put: under the
\* directory the rest of p leads to, which has to be there
CreateAt(fs, p) ==
    LET Place(parent, base) ==
            IF Top(parent).kind = "none" THEN [error |-> "ENOENT", path |-> <<>>]
            ELSE IF ~isDirectory(Top(parent)) THEN [error |-> "ENOTDIR", path |-> <<>>]
            ELSE IF base \in {<<>>, <<".">>, <<".", ".">>}
            THEN [error |-> "ENOENT", path |-> <<>>]
            ELSE [error |-> "",
                  path |-> IF Len(parent) = 1 THEN <<"/">> \o base
                           ELSE StackPath(parent) \o <<"/">> \o base]
    IN  Place(Resolve(fs, PathDir(p)), PathBase(p))

\* fs.mkdirSync(p): the error thrown (or none) and the file system it leaves.
\* Separators at the end of p are not part of the name to make: what is
\* there under the name before them, a file too, makes the call fail with
\* EEXIST.
mkdirSync(fs, p) ==
    LET q == StripTrailingSep(p)
        Make(found, at) ==
            IF p = <<>> THEN [error |-> "ENOENT", fs |-> fs]
            ELSE IF found.kind = "notdir" THEN [error |-> "ENOTDIR", fs |-> fs]
            ELSE IF found.kind # "none" THEN [error |-> "EEXIST", fs |-> fs]
            ELSE IF at.error # "" THEN [error |-> at.error, fs |-> fs]
            ELSE [error |-> "",
                  fs |-> [fs EXCEPT !.root = PutEntry(@, PathNames(at.path),
                                                      Dir(PathBase(at.path), <<>>))]]
    IN  Make(Top(Resolve(fs, q)), CreateAt(fs, q))

\* The text of the file whose path (as StackPath gives it) is `real`
FileData(fs, real) ==
    LET hits == {i \in 1..Len(fs.data) : fs.data[i].path = real}
    IN  IF hits = {} THEN <<>> ELSE fs.data[Min(hits)].content

\* The file system with this text in the file whose path is `real`
StoreData(fs, real, content) ==
    LET hits == {i \in 1..Len(fs.data) : fs.data[i].path = real}
    IN  [root |-> PutEntry(fs.root, PathNames(real), File(PathBase(real))),
         data |-> IF hits = {} THEN Append(fs.data, [path |-> real, content |-> content])
                  ELSE [fs.data EXCEPT ![Min(hits)].content = content]]

\* fs.writeFileSync(p, content): the error thrown (or none) and the file
\* system it leaves.  The file is made when it is not there; what is written
\* to a symbolic link is kept under the path of the link.  A path that ends
\* with a separator names a directory, whatever is under the name before it:
\* once the directories on the way are found, the call fails with EISDIR.
writeFileSync(fs, p, content) ==
    LET q == StripTrailingSep(p)
        Write(stack, at, asDirectory) ==
            IF p = <<>> THEN [error |-> "ENOENT", fs |-> fs]
            ELSE IF Top(stack).kind = "notdir" THEN [error |-> "ENOTDIR", fs |-> fs]
            ELSE IF Top(stack).kind = "dir" THEN [error |-> "EISDIR", fs |-> fs]
            ELSE IF Top(stack).kind # "none"
            THEN IF asDirectory THEN [error |-> "EISDIR", fs |-> fs]
                 ELSE [error |-> "", fs |-> StoreData(fs, StackPath(stack), content)]
            ELSE IF at.error # "" THEN [error |-> at.error, fs |-> fs]
            ELSE IF asDirectory THEN [error |-> "EISDIR", fs |-> fs]
            ELSE [error |-> "", fs |-> StoreData(fs, at.path, content)]
    IN  Write(Resolve(fs, q), CreateAt(fs, q), p # q)

\* fs.unlinkSync(p): the error thrown (or none) and the file system it leaves
unlinkSync(fs, p) ==
    LET Unlink(stack) ==
            IF p = <<>> \/ Top(stack).kind = "none" THEN [error |-> "ENOENT", fs |-> fs]
            ELSE IF Top(stack).kind = "notdir" THEN [error |-> "ENOTDIR", fs |-> fs]
            ELSE IF Top(stack).kind = "dir" THEN [error |-> "EISDIR", fs |-> fs]
            ELSE [error |-> "",
                  fs |-> [root |-> RemoveEntry(fs.root, PathNames(StackPath(stack))),
                          data |-> SelectSeq(fs.data,
                                             LAMBDA f : f.path # StackPath(stack))]]
    IN  Unlink(Resolve(fs, p))

\* The full path of everything that exists
FsPaths(fs) == AllPaths(fs.root, <<>>)

(***************************************************************************)
(* FindInLocation (src/index.js 413-519).                                  *)
(***************************************************************************)
allowedReturnTypes        == {"full", "name", "nameProper"}
allowedLookFor            == {"files", "folders", "both"}
allowedIfHaystackNotFound == {"returnEmptyResults", "throwError"}

\* Names every object literal answers to besides its own keys: the
\* properties it inherits from Object.prototype, all of them truthy
ObjectPrototypeKeys ==
    {"constructor", "toString", "toLocaleString", "valueOf", "hasOwnProperty",
     "isPrototypeOf", "propertyIsEnumerable", "__proto__", "__defineGetter__",
     "__defineSetter__", "__lookupGetter__", "__lookupSetter__"}

\* allowedIfHaystackNotFound[key] of line 452: the object is indexed, so an
\* inherited property is found as well as an own key
LookupIfHaystackNotFound(key) ==
    key \in allowedIfHaystackNotFound \/ key \in ObjectPrototypeKeys

\* options = {...}: the defaults of lines 417-426.  allowedExt is given as a
\* list, caseSensitive as a boolean and depth as a number, and one that is
\* left out as <<>>, FALSE and 0: these are the values `|| []`, `!!` and
\* `|| 0` give for it, and they leave a list, a boolean and a number as they
\* are.
FindOptions(o) ==
    [allowedExt         |-> o.allowedExt,
     partialMatch       |-> IF o.partialMatch.t = "undef" THEN JBool(TRUE) ELSE o.partialMatch,
     caseSensitive      |-> o.caseSensitive,
     returnType         |-> IF Truthy(o.returnType) /\ JLength(o.returnType) # 0
                            THEN o.returnType ELSE JArr(<<"full">>),
     depth              |-> o.depth,
     lookFor            |-> IF o.lookFor = Undefined THEN "files" ELSE o.lookFor,
     ifHaystackNotFound |-> IF o.ifHaystackNotFound \in {Undefined, ""}
                            THEN "returnEmptyResults" ELSE o.ifHaystackNotFound]

\* One entry of allowedExt as it is stored: spaces removed, lower-cased, and a
\* dot put in front when it does not start with one (lines 433-438)
NormalizeExt(ext) ==
    LET e == toLowerCase(StripSpaces(ext))
    IN  IF e = <<>> THEN <<>>
        ELSE IF e[1] = "." THEN e ELSE <<".">> \o e

\* The loop of lines 431-447: blank entries and repetitions are skipped
RECURSIVE ParseAllowedExt(_, _)
ParseAllowedExt(exts, parsed) ==
    IF exts = <<>> THEN parsed
    ELSE LET e == NormalizeExt(Head(exts))
         IN  IF e = <<>> \/ (\E i \in 1..Len(parsed) : parsed[i] = e)
             THEN ParseAllowedExt(Tail(exts), parsed)
             ELSE ParseAllowedExt(Tail(exts), Append(parsed, e))

\* The checks of lines 452-455, in their order: the text thrown, or "" when
\* the options are valid
FindValidate(opt) ==
    IF ~LookupIfHaystackNotFound(opt.ifHaystackNotFound) THEN "ifHaystackNotFound not allowed"
    ELSE IF TypeOf(opt.returnType) # "object" THEN "returnType must be an array"
    ELSE IF \E i \in 1..Len(opt.returnType.a) : opt.returnType.a[i] \notin allowedReturnTypes
         THEN "wrong returnType"
    ELSE IF opt.lookFor \notin allowedLookFor THEN "lookFor invalid"
    ELSE ""

\* Descend with the depth test off by one: one level too deep
DescendOneTooDeep(dirent, newDepth) == isDirectory(dirent) /\ newDepth >= -1

\* line 476: whether scanFolder descends into the entry
Descend(dirent, newDepth) == isDirectory(dirent) /\ newDepth >= 0

\* The source of new RegExp(needle): the text of a string, the digits of a
\* number, and the empty pattern for undefined
RegExpSource(needle) ==
    IF needle = <<Undefined>> THEN <<>>
    ELSE IF IsString(needle) THEN needle
    ELSE Tail(needle)

\* lines 480-484: the name test; FALSE means `continue`.  A needle that is
\* no string is never equal (!==) to a name.
NameTest(partialMatch, hay, needle) ==
    IF Truthy(partialMatch) /\ StrSearch(hay, RegExpSource(needle)) = -1 THEN FALSE
    ELSE IF ~Truthy(partialMatch) /\ hay # needle THEN FALSE
    ELSE TRUE

\* ExtTest without lower-casing the entry's extension
ExtTestCaseSensitive(allowAllExt, allowedExt, hayOriginal) ==
    ~(~allowAllExt /\ ~(\E i \in 1..Len(allowedExt) : allowedExt[i] = PathExt(hayOriginal)))

\* lines 486-490: the extension test
ExtTest(allowAllExt, allowedExt, hayOriginal) ==
    ~(~allowAllExt /\ ~(\E i \in 1..Len(allowedExt) :
                            allowedExt[i] = toLowerCase(PathExt(hayOriginal))))

\* lines 492-500: the kind test
KindTest(lookFor, dirent) ==
    IF lookFor # "both"
    THEN ~(lookFor = "folders" /\ isFile(dirent)) /\ ~(lookFor = "files" /\ isDirectory(dirent))
    ELSE TRUE

\* line 504: the value one match contributes to the list of one return kind
ResultValue(returnType, fullPath, hayOriginal) ==
    CASE returnType = "full"       -> fullPath
      [] returnType = "name"       -> hayOriginal
      [] returnType = "nameProper" -> PathName(hayOriginal)

\* PushResults that serves the first entry of returnType only
RECURSIVE PushResultsFirstOnly(_, _, _, _)
PushResultsFirstOnly(results, returnTypes, fullPath, hayOriginal) ==
    IF returnTypes = <<>> THEN results
    ELSE LET rt == Head(returnTypes)
         IN  [results EXCEPT ![rt] = Append(@, ResultValue(rt, fullPath, hayOriginal))]

\* lines 502-505: a match is pushed once per entry of returnType.  A list
\* that was never pushed to is not a property of results (line 503 creates
\* it on the first push): an absent list is kept here as the empty one, and
\* ResultKeys says which lists exist.
RECURSIVE PushResults(_, _, _, _)
PushResults(results, returnTypes, fullPath, hayOriginal) ==
    IF returnTypes = <<>> THEN results
    ELSE LET rt == Head(returnTypes)
         IN  PushResults([results EXCEPT ![rt] = Append(@, ResultValue(rt, fullPath, hayOriginal))],
                         Tail(returnTypes), fullPath, hayOriginal)

\* Object.keys(response.results)
ResultKeys(response) == {rt \in allowedReturnTypes : response.results[rt] # <<>>}

\* let response = {...} of line 427, with the log of what the scan touched:
\* reads (the directories given to readdirSync) and tested (every entry
\* counted in entitiesTested: its full path, its kind, and whether it went on
\* to be pushed and counted in lines 502-506) and pushed (the full paths of
\* the entries that reached line 502, in the order they reached it) and
\* pending (the directories whose scanFolder call has been made but whose body
\* has not run when the caller goes on)
EmptyResponse ==
    [results |-> [full |-> <<>>, name |-> <<>>, nameProper |-> <<>>],
     stats   |-> [foldersScanned |-> 0, entitiesTested |-> 0, resultsFound |-> 0],
     reads   |-> <<>>,
     tested  |-> <<>>,
     pushed  |-> <<>>,
     pending |-> <<>>]

\* scanFolder (lines 466-508).  It is declared async but holds no await, so a
\* call runs to its end before the caller goes on: the recursive call of line
\* 477 is complete when line 480 is reached.
RECURSIVE scanFolder(_, _, _, _, _, _)
RECURSIVE scanEntries(_, _, _, _, _, _, _)

\* A scanFolder whose body would start with an await: the call of line 477,
\* which nobody awaits, then only queues the directory, and its scan runs
\* after the promise of line 514 has resolved
scanFolderDeferred(dir, haystack, needle, depth, opt, response) ==
    IF response.reads = <<>>
    THEN scanEntries(dir, 1, haystack, needle, depth - 1, opt,
                     [response EXCEPT !.stats.foldersScanned = @ + 1,
                                      !.reads = Append(@, haystack)])
    ELSE [response EXCEPT !.pending = Append(@, haystack)]

\* A scanFolder loop that tests an entry as a candidate (lines 480-506)
\* before it descends into it (lines 476-478)
scanEntriesTestFirst(dir, i, haystack, needle, newDepth, opt, response) ==
    IF i > Len(dir) THEN response
    ELSE
    LET dirent == dir[i]
        hayOriginal == dirent.name
        hay == IF opt.caseSensitive THEN hayOriginal ELSE toLowerCase(hayOriginal)
        fullPath == PathJoin(haystack, hayOriginal)
        r1 == [response EXCEPT !.stats.entitiesTested = @ + 1,
                               !.tested = Append(@, [path |-> fullPath,
                                                     isDir |-> isDirectory(dirent),
                                                     isFile |-> isFile(dirent),
                                                     returned |-> FALSE])]
        n == Len(r1.tested)
        matched == /\ NameTest(opt.partialMatch, hay, needle)
                   /\ ExtTest(opt.allowAllExt, opt.allowedExt, hayOriginal)
                   /\ KindTest(opt.lookFor, dirent)
        r2 == IF matched
              THEN [r1 EXCEPT !.results = PushResults(@, opt.returnType.a, fullPath, hayOriginal),
                              !.stats.resultsFound = @ + 1,
                              !.tested[n].returned = TRUE,
                              !.pushed = Append(@, fullPath)]
              ELSE r1
        r3 == IF Descend(dirent, newDepth)
              THEN scanFolder(dirent.children, fullPath, needle, newDepth, opt, r2)
              ELSE r2
    IN  scanEntries(dir, i + 1, haystack, needle, newDepth, opt, r3)

scanFolder(dir, haystack, needle, depth, opt, response) ==
    LET newDepth == depth - 1
        r == [response EXCEPT !.stats.foldersScanned = @ + 1,
                              !.reads = Append(@, haystack)]
    IN  scanEntries(dir, 1, haystack, needle, newDepth, opt, r)

scanEntries(dir, i, haystack, needle, newDepth, opt, response) ==
    IF i > Len(dir) THEN response
    ELSE
    LET dirent == dir[i]
        hayOriginal == dirent.name
        hay == IF opt.caseSensitive THEN hayOriginal ELSE toLowerCase(hayOriginal)
        fullPath == PathJoin(haystack, hayOriginal)
        r1 == [response EXCEPT !.stats.entitiesTested = @ + 1,
                               !.tested = Append(@, [path |-> fullPath,
                                                     isDir |-> isDirectory(dirent),
                                                     isFile |-> isFile(dirent),
                                                     returned |-> FALSE])]
        n == Len(r1.tested)
        r2 == IF Descend(dirent, newDepth)
              THEN scanFolder(dirent.children, fullPath, needle, newDepth, opt, r1)
              ELSE r1
        matched == /\ NameTest(opt.partialMatch, hay, needle)
                   /\ ExtTest(opt.allowAllExt, opt.allowedExt, hayOriginal)
                   /\ KindTest(opt.lookFor, dirent)
        r3 == IF matched
              THEN [r2 EXCEPT !.results = PushResults(@, opt.returnType.a, fullPath, hayOriginal),
                              !.stats.resultsFound = @ + 1,
                              !.tested[n].returned = TRUE,
                              !.pushed = Append(@, fullPath)]
              ELSE r2
    IN  scanEntries(dir, i + 1, haystack, needle, newDepth, opt, r3)

\* The promise of FindInLocation: `value` says what it resolves with
\* ("response" or "undefined"), `reason` what it rejects with, and `exists`
\* counts the calls of fs.existsSync.  A call that throws or returns before
\* line 514 returns a promise that is settled; one that gets to the await of
\* line 514 returns a pending promise, which settles when the function is
\* resumed.
FindPromise(state, value, reason, response, exists) ==
    [state |-> state, value |-> value, reason |-> reason,
     response |-> response, exists |-> exists]

\* The promise once the function has been resumed after the await of line
\* 514: rejected when scanFolder threw, fulfilled with the response otherwise
Settled(promise) ==
    IF promise.state # "pending" THEN promise
    ELSE [promise EXCEPT !.state = IF promise.reason # "" THEN "rejected" ELSE "fulfilled"]

\* FindInLocation(needle, haystack, options) on the file system fs: the
\* promise as the call returns it
FindInLocation(fs, needle, haystack, options) ==
    LET \* line 514: the scanFolder of the haystack, given what line 470 reads
        Scan(dir, ndl, opt) ==
            IF dir.error # ""
            THEN \* line 470: readdirSync throws in the scanFolder that line 514 awaits
                 FindPromise("pending", "", dir.error,
                             [EmptyResponse EXCEPT !.stats.foldersScanned = 1,
                                                   !.reads = <<haystack>>], 2)
            ELSE FindPromise("pending", "response", "",
                             scanFolder(dir.entries, haystack, ndl, opt.depth, opt,
                                        EmptyResponse),
                             2)
        \* lines 429-518, with the options of lines 417-426 and 431-447
        Find(o0, opt, err) ==
            IF ~o0.caseSensitive /\ ~IsString(needle)
            THEN \* line 429: needle.toLowerCase is not a function, or needle is undefined
                 FindPromise("rejected", "", "TypeError", EmptyResponse, 0)
            ELSE IF err # "" THEN FindPromise("rejected", "", err, EmptyResponse, 0)
            ELSE IF ~existsSync(fs, haystack)
            THEN IF opt.ifHaystackNotFound = "throwError"
                 THEN FindPromise("rejected", "", "haystack does not exist", EmptyResponse, 1)
                 ELSE IF opt.ifHaystackNotFound = "returnEmptyResults"
                 THEN FindPromise("fulfilled", "response", "", EmptyResponse, 1)
                 ELSE \* neither branch of lines 457-463: line 510 asks again, line 511
                      \* returns
                      FindPromise("fulfilled", "undefined", "", EmptyResponse, 2)
            ELSE Scan(readdirSync(fs, haystack),
                      IF o0.caseSensitive THEN needle ELSE toLowerCase(needle), opt)
        Parsed(o0, parsed) ==
            [o0 EXCEPT !.allowedExt = parsed] @@ [allowAllExt |-> parsed = <<>>]
        Checked(o0, opt) == Find(o0, opt, FindValidate(opt))
        Given(o0) == Checked(o0, Parsed(o0, ParseAllowedExt(o0.allowedExt, <<>>)))
    IN  Given(FindOptions(options))

(***************************************************************************)
(* SwitchReport (src/index.js 8-171): the rows and the counts.             *)
(***************************************************************************)
NewReport ==
    [RowCounts     |-> [Error |-> 0, Warning |-> 0, Success |-> 0],
     MessageByType |-> [Error |-> <<>>, Warning |-> <<>>, Success |-> <<>>, Log |-> <<>>],
     Rows          |-> <<>>]

\* The text a property inherited from Object.prototype gives in a template
\* literal: the source of a native function, or that of the prototype object
InheritedText(key) ==
    CASE key = "constructor" -> "function Object() { [native code] }"
      [] key = "__proto__"   -> "[object Object]"
      [] OTHER               -> "function " \o key \o "() { [native code] }"

\* line 70: colours[rowType] || "bg-default"; the object is indexed, so an
\* inherited property is found as well as an own key
RowColour(rowType) ==
    CASE rowType = "success" -> "bg-success"
      [] rowType = "warning" -> "bg-warning"
      [] rowType = "error"   -> "bg-error"
      [] rowType \in ObjectPrototypeKeys -> InheritedText(rowType)
      [] OTHER               -> "bg-default"

\* addRow (lines 63-80): one rendered row per message
RECURSIVE addRow(_, _, _)
addRow(report, rowType, messages) ==
    IF messages = <<>> THEN report
    ELSE LET color == RowColour(rowType)
         IN  addRow([report EXCEPT !.Rows = Append(@, [color |-> color, message |-> Head(messages)])],
                    rowType, Tail(messages))

\* addErrorRow, addWarningRow, addSuccessRow (lines 47-61)
addErrorRow(report, messages) ==
    [addRow(report, "error", messages) EXCEPT !.MessageByType.Error = @ \o messages,
                                              !.RowCounts.Error = @ + 1]
addWarningRow(report, messages) ==
    [addRow(report, "warning", messages) EXCEPT !.MessageByType.Warning = @ \o messages,
                                                !.RowCounts.Warning = @ + 1]
addSuccessRow(report, messages) ==
    [addRow(report, "success", messages) EXCEPT !.MessageByType.Success = @ \o messages,
                                                !.RowCounts.Success = @ + 1]

\* Sender that looks at the warnings before the errors
SenderWarningFirst(options) ==
    IF options.RowCounts.Warning # 0 THEN "warning"
    ELSE IF options.RowCounts.Error # 0 THEN "error"
    ELSE "success"

\* line 167: the method of the connection manager the report is sent with
Sender(options) ==
    IF options.RowCounts.Error # 0 THEN "error"
    ELSE IF options.RowCounts.Warning # 0 THEN "warning"
    ELSE "success"

\* The host calls of send that can fail, and "none" for a job whose calls
\* all resolve
HostCalls == {"getName", "createChild", "sendToLog", "sendToData"}

\* One call made on the job or on the report's child job: the level it names
\* ("" when it names none) and whether it resolved
HostCall(op, level, ok) == [op |-> op, level |-> level, ok |-> ok]

\* The host calls of the try block in sendToData-first order
SendStepsDataFirst(level, report, newName) ==
    (IF newName THEN <<HostCall("getName", "", TRUE)>> ELSE <<>>)
    \o <<HostCall("sendToData", level, TRUE)>>
    \o (IF report = "exists"
        THEN <<HostCall("createChild", "", TRUE), HostCall("sendToLog", level, TRUE)>>
        ELSE <<>>)

\* lines 778-790: the host calls of the try block in the order the code
\* makes them when none fails
SendSteps(level, report, newName) ==
    (IF newName THEN <<HostCall("getName", "", TRUE)>> ELSE <<>>)
    \o (IF report = "exists"
        THEN <<HostCall("createChild", "", TRUE), HostCall("sendToLog", level, TRUE)>>
        ELSE <<>>)
    \o <<HostCall("sendToData", level, TRUE)>>

\* The steps up to the first call that fails, that call included
RECURSIVE UntilFailure(_, _)
UntilFailure(steps, fail) ==
    IF steps = <<>> THEN <<>>
    ELSE IF Head(steps).op = fail THEN <<[Head(steps) EXCEPT !.ok = FALSE]>>
    ELSE <<Head(steps)>> \o UntilFailure(Tail(steps), fail)

\* OutgoingConnectionManager.send (lines 771-794).  report is "none" (no
\* report given), "exists" or "missing" (a path fs.existsSync does not
\* find); newName says whether the manager was built with one; fail is the
\* host call that rejects, or "none".  job.log itself resolves.
send(level, report, newName, fail) ==
    IF level \notin {"success", "warning", "error"}
    THEN [outcome |-> "rejected", calls |-> <<>>]
    ELSE IF report = "missing"
    THEN [outcome |-> "rejected", calls |-> <<>>]
    ELSE IF newName /\ report = "none"
    THEN \* line 781: path.parse(undefined) throws inside the try block
         [outcome |-> "resolved", calls |-> <<HostCall("log", "error", TRUE)>>]
    ELSE LET made == UntilFailure(SendSteps(level, report, newName), fail)
             failed == \E i \in 1..Len(made) : ~made[i].ok
         IN  [outcome |-> "resolved",
              calls   |-> IF failed THEN Append(made, HostCall("log", "error", TRUE))
                          ELSE made]

(***************************************************************************)
(* GenerateDateString and GenerateNewName (src/index.js 196-214).          *)
(***************************************************************************)
DigitChars == <<"0", "1", "2", "3", "4", "5", "6", "7", "8", "9">>

\* String(n) of a natural number, as a template literal renders it
RECURSIVE NumberToString(_)
NumberToString(n) ==
    IF n < 10 THEN <<DigitChars[n + 1]>>
    ELSE NumberToString(n \div 10) \o <<DigitChars[(n % 10) + 1]>>

\* lines 200-204: n < 10 ? `0${n}` : n
ZeroBelowTen(n) == IF n < 10 THEN <<"0">> \o NumberToString(n) ELSE NumberToString(n)

\* Date.prototype.getUTCMonth: 0 for January to 11 for December.  An instant
\* is held as its UTC calendar fields, month 1 to 12
getUTCMonth(d) == d.month - 1

\* GenerateDateString (lines 196-208) at the instant d
GenerateDateString(d, separator, includeMs) ==
    LET YYYY == NumberToString(d.year)
        MM == separator \o ZeroBelowTen(getUTCMonth(d))
        DD == separator \o ZeroBelowTen(d.date)
        hh == separator \o ZeroBelowTen(d.hours)
        mm == separator \o ZeroBelowTen(d.minutes)
        ss == separator \o ZeroBelowTen(d.seconds)
        ms == IF includeMs THEN separator \o NumberToString(d.ms) ELSE <<>>
    IN  YYYY \o MM \o DD \o hh \o mm \o ss \o ms

\* Number of decimal places the factor 1000000000000 of line 213 shifts by
RandomShift == 12

\* Number of bits in the significand of a Number (IEEE 754 binary64)
SignificandBits == 53

\* The arithmetic of line 213 is done on numbers no integer of the model
\* holds: a large natural number is the sequence of its limbs of LimbBits
\* bits each, the most significant first, and decimal digits are taken
\* ChunkDigits at a time
LimbBits == 14
ChunkDigits == 4
LimbBase == 2^LimbBits
ChunkBase == 10^ChunkDigits

\* The limbs of a * m + c that a has, and the carry out of them, for m and c
\* up to ChunkBase: the lower half of the limbs first, then the upper half
\* with the carry of the lower
RECURSIVE MulAddCarry(_, _, _)
MulAddCarry(a, m, c) ==
    LET Upper(low) ==
            LET Both(high) == [limbs |-> high.limbs \o low.limbs, carry |-> high.carry]
            IN  Both(MulAddCarry(SubSeq(a, 1, Len(a) \div 2), m, low.carry))
    IN  IF c = 0 /\ m = 1 THEN [limbs |-> a, carry |-> 0]
        ELSE IF a = <<>> THEN [limbs |-> <<>>, carry |-> c]
        ELSE IF Len(a) = 1
        THEN [limbs |-> <<(a[1] * m + c) % LimbBase>>, carry |-> (a[1] * m + c) \div LimbBase]
        ELSE Upper(MulAddCarry(SubSeq(a, Len(a) \div 2 + 1, Len(a)), m, c))

\* a * m + c, for m and c up to ChunkBase
MulAdd(a, m, c) ==
    LET Whole(r) == (IF r.carry = 0 THEN <<>> ELSE <<r.carry>>) \o r.limbs
    IN  Whole(MulAddCarry(a, m, c))

\* The quotient and the remainder of a / m for m up to ChunkBase, with r the
\* remainder and q the quotient of the limbs gone through: the upper half of
\* the limbs first, then the lower half
RECURSIVE DivRem(_, _, _, _)
DivRem(a, m, r, q) ==
    LET Lower(high) == DivRem(SubSeq(a, Len(a) \div 2 + 1, Len(a)), m, high.r, high.q)
    IN  IF r = 0 /\ \A i \in 1..Len(a) : a[i] = 0 THEN [q |-> q \o a, r |-> 0]
        ELSE IF Len(a) = 1
        THEN [q |-> Append(q, (r * LimbBase + a[1]) \div m), r |-> (r * LimbBase + a[1]) % m]
        ELSE Lower(DivRem(SubSeq(a, 1, Len(a) \div 2), m, r, q))

\* a divided by m k times over, and whether any remainder was left
RECURSIVE DivTimes(_, _, _, _)
DivTimes(a, m, k, rest) ==
    LET Once(d) == [q |-> d.q, rest |-> rest \/ d.r # 0]
        Then(d) == DivTimes(d.q, m, k - k \div 2, d.rest)
    IN  IF a = <<>> \/ k = 0 THEN [q |-> a, rest |-> rest]
        ELSE IF k = 1 THEN Once(DivRem(a, m, 0, <<>>))
        ELSE Then(DivTimes(a, m, k \div 2, rest))

\* The number a sequence of decimal digits, or of bits, spells
RECURSIVE DigitsValue(_, _)
DigitsValue(digits, base) ==
    IF digits = <<>> THEN 0
    ELSE base * DigitsValue(SubSeq(digits, 1, Len(digits) - 1), base) + digits[Len(digits)]

\* The limbs of acc * 10^n + the number the n decimal digits spell, n a
\* multiple of ChunkDigits
RECURSIVE LimbsOfDigits(_, _)
LimbsOfDigits(digits, acc) ==
    LET half == ChunkDigits * ((Len(digits) \div ChunkDigits) \div 2)
    IN  IF acc = <<>> /\ \A i \in 1..Len(digits) : digits[i] = 0 THEN <<>>
        ELSE IF digits = <<>> THEN acc
        ELSE IF Len(digits) <= ChunkDigits THEN MulAdd(acc, ChunkBase, DigitsValue(digits, 10))
        ELSE LimbsOfDigits(SubSeq(digits, half + 1, Len(digits)),
                           LimbsOfDigits(SubSeq(digits, 1, half), acc))

\* The bits of a number given by its limbs, without leading zeros
BitsOfLimbs(a) ==
    LET bits == [i \in 1..(LimbBits * Len(a)) |->
                    (a[(i - 1) \div LimbBits + 1] \div 2^(LimbBits - 1 - ((i - 1) % LimbBits))) % 2]
        ones == {i \in 1..(LimbBits * Len(a)) : bits[i] = 1}
    IN  IF ones = {} THEN <<>> ELSE SubSeq(bits, Min(ones), Len(bits))

\* The limbs of a number given by its bits
LimbsOfBits(bits) ==
    LET n == (Len(bits) + LimbBits - 1) \div LimbBits
        pad == n * LimbBits - Len(bits)
    IN  [j \in 1..n |->
            DigitsValue([k \in 1..LimbBits |->
                            IF (j - 1) * LimbBits + k <= pad THEN 0
                            ELSE bits[(j - 1) * LimbBits + k - pad]], 2)]

\* A number given by its bits, plus one
IncrementBits(bits) ==
    LET zeros == {i \in 1..Len(bits) : bits[i] = 0}
    IN  IF zeros = {} THEN <<1>> \o [i \in 1..Len(bits) |-> 0]
        ELSE [i \in 1..Len(bits) |->
                 IF i < Max(zeros) THEN bits[i] ELSE IF i = Max(zeros) THEN 1 ELSE 0]

\* A binary number rounded to the bits a significand holds, ties to even:
\* `bits` holds one bit more than is kept, and `rest` says whether anything
\* but zeros follows them
RoundBits(bits, rest) ==
    LET kept == SubSeq(bits, 1, Len(bits) - 1)
        up == bits[Len(bits)] = 1 /\ (rest \/ kept[Len(kept)] = 1)
    IN  IF up THEN IncrementBits(kept) ELSE kept

\* A number given by its bits rounded to a Number: the first
\* SignificandBits bits, rounded, with zeros for the others
RoundToNumber(bits, rest) ==
    IF Len(bits) <= SignificandBits THEN bits
    ELSE RoundBits(SubSeq(bits, 1, SignificandBits + 1),
                   rest \/ \E i \in (SignificandBits + 2)..Len(bits) : bits[i] = 1)
         \o [i \in 1..(Len(bits) - SignificandBits) |-> 0]

\* The Number a decimal literal 0.d1 d2 ... stands for, which is the one
\* nearest to it: the numerator of the fraction it is over 2^scale.  The
\* literal times 2^scale is worked out first, for a scale that leaves more
\* bits than a significand holds.
NumberOfFraction(fraction) ==
    LET chunks == (Len(fraction) + ChunkDigits - 1) \div ChunkDigits
        padded == fraction \o [i \in 1..(chunks * ChunkDigits - Len(fraction)) |-> 0]
        scale == LimbBits * (chunks + ChunkDigits)
        Nearest(d) == [numerator |-> RoundToNumber(BitsOfLimbs(d.q), d.rest), scale |-> scale]
    IN  Nearest(DivTimes(LimbsOfDigits(padded, <<>>) \o [i \in 1..(chunks + ChunkDigits) |-> 0],
                         ChunkBase, chunks, FALSE))

\* a * 10^n
RECURSIVE TimesPowerOfTen(_, _)
TimesPowerOfTen(a, n) == IF n = 0 THEN a ELSE TimesPowerOfTen(MulAdd(a, 10, 0), n - 1)

\* Math.round of the Number numerator / 2^scale: the integer part, and one
\* more when the first bit after the point is set
MathRound(numerator, scale) ==
    LET n == Len(numerator)
        whole == IF n > scale THEN SubSeq(numerator, 1, n - scale) ELSE <<>>
        half == scale >= 1 /\ n >= scale /\ numerator[n - scale + 1] = 1
    IN  IF half THEN IncrementBits(whole) ELSE whole

\* The last k chunks of the decimal digits of a number given by its limbs,
\* and the number without them
RECURSIVE LastDigits(_, _)
LastDigits(a, k) ==
    LET Chunk(d) ==
            [q |-> d.q,
             digits |-> [i \in 1..ChunkDigits |-> (d.r \div 10^(ChunkDigits - i)) % 10]]
        Before(low) ==
            LET Both(high) == [q |-> high.q, digits |-> high.digits \o low.digits]
            IN  Both(LastDigits(low.q, k - k \div 2))
    IN  IF a = <<>> THEN [q |-> a, digits |-> [i \in 1..(ChunkDigits * k) |-> 0]]
        ELSE IF k = 1 THEN Chunk(DivRem(a, ChunkBase, 0, <<>>))
        ELSE Before(LastDigits(a, k \div 2))

\* The decimal digits of a number given by its limbs, in chunks, with zeros
\* before them: a chunk holds more than LimbBits - 1 bits
DigitsOfLimbs(a) ==
    IF a = <<>> THEN <<>>
    ELSE LastDigits(a, (Len(a) * LimbBits) \div (LimbBits - 1) + 1).digits

\* A digit sequence without its leading zeros; <<0>> for zero
StripLeadingZeros(digits) ==
    LET set == {i \in 1..Len(digits) : digits[i] # 0}
    IN  IF set = {} THEN <<0>> ELSE SubSeq(digits, Min(set), Len(digits))

\* Math.round(Math.random() * 1000000000000) as a string, worked out for
\* Math.random() = 0.f1 f2 f3 ... given by its decimal digits: the Number the
\* digits stand for is multiplied in binary floating point, so the product
\* is a Number again, and that is rounded to an integer
MultiplyAndRound(fraction) ==
    LET Product(x) ==
            MathRound(RoundToNumber(BitsOfLimbs(TimesPowerOfTen(LimbsOfBits(x.numerator),
                                                                 RandomShift)),
                                    FALSE),
                      x.scale)
        String(digits) == [i \in 1..Len(digits) |-> DigitChars[digits[i] + 1]]
    IN  String(StripLeadingZeros(DigitsOfLimbs(LimbsOfBits(Product(NumberOfFraction(fraction))))))

\* Values of Math.random(), by their decimal digits: 0, 0.042, 0.043,
\* 0.2536168210435, 0.9999999999994 and 0.9999999999995
RandomFractions ==
    { <<0>>, <<0, 4, 2>>, <<0, 4, 3>>,
      <<2, 5, 3, 6, 1, 6, 8, 2, 1, 0, 4, 3, 5>>,
      [i \in 1..(RandomShift + 1) |-> IF i <= RandomShift THEN 9 ELSE 4],
      [i \in 1..(RandomShift + 1) |-> IF i <= RandomShift THEN 9 ELSE 5] }

\* MultiplyAndRound of each of these values
RoundedFractions == [fraction \in RandomFractions |-> MultiplyAndRound(fraction)]

\* Math.round(Math.random() * 1000000000000) of line 213 as a string
RoundedRandom(fraction) ==
    IF fraction \in RandomFractions THEN RoundedFractions[fraction]
    ELSE MultiplyAndRound(fraction)

\* GenerateNewName (lines 212-214) with the default separator, at the
\* instant d and with Math.random() returning 0.fraction
GenerateNewName(prefix, suffix, d, fraction) ==
    LET separator == <<"_">>
    IN  (IF prefix # <<>> THEN prefix \o separator ELSE <<>>)
        \o GenerateDateString(d, <<>>, TRUE)
        \o separator
        \o RoundedRandom(fraction)
        \o (IF suffix # <<>> THEN separator \o suffix ELSE <<>>)

(***************************************************************************)
(* GetGlobalSwitchConfig (src/index.js 175-191).                           *)
(***************************************************************************)
JsonExt == <<".", "j", "s", "o", "n">>

\* process.env[env_var] of a variable that is not set
EnvUnset == <<Undefined>>

ConfigDir     == <<"/", "c">>
ConfigJson    == ConfigDir \o <<"/", "a">> \o JsonExt        \* a file holding JSON
ConfigBadJson == ConfigDir \o <<"/", "b">> \o JsonExt        \* a file holding no JSON
ConfigMissing == ConfigDir \o <<"/", "m">> \o JsonExt        \* no such file
ConfigUpper   == ConfigDir \o <<"/", "a", ".", "J", "S", "O", "N">>
ConfigTxt     == ConfigDir \o <<"/", "a", ".", "t", "x", "t">>
ConfigDotOnly == ConfigDir \o <<"/">> \o JsonExt             \* the file named ".json"
ConfigSlash   == ConfigJson \o <<"/">>                       \* a.json with a separator after it

EnvValues ==
    {EnvUnset, <<>>, ConfigJson, ConfigBadJson, ConfigMissing, ConfigUpper, ConfigTxt,
     ConfigDotOnly, ConfigSlash}

\* ConfigPathOk that ignores the case of the extension
ConfigPathOkAnyCase(loc) == toLowerCase(PathExt(loc)) = JsonExt

\* line 182: the check of the extension
ConfigPathOk(loc) == PathExt(loc) = JsonExt

\* line 187: JSON.parse(fs.readFileSync(loc)) returns for the one file that
\* holds JSON and throws for every other path
ReadsJson(loc) == loc = ConfigJson

\* GetGlobalSwitchConfig(): `reads` lists the paths given to fs.readFileSync
GetGlobalSwitchConfig(loc) ==
    IF loc = EnvUnset \/ loc = <<>>
    THEN [outcome |-> "threw", error |-> "not set", reads |-> <<>>]
    ELSE IF ~ConfigPathOk(loc)
    THEN [outcome |-> "threw", error |-> "not a JSON file", reads |-> <<>>]
    ELSE IF ReadsJson(loc)
    THEN [outcome |-> "returned", error |-> "", reads |-> <<loc>>]
    ELSE [outcome |-> "threw", error |-> "Invalid JSON file format", reads |-> <<loc>>]

(***************************************************************************)
(* CreateNewTmpFile and CreateDataSet (src/index.js 219-302).  What they   *)
(* do to the file system and to the job is kept as a sequence of events.   *)
(***************************************************************************)
\* One reading of the clock (new Date()) together with one of Math.random()
Tick(d, fraction) == [d |-> d, fraction |-> fraction]

\* Something done to the file system (mkdir, write, unlink: the path, and
\* whether it existed just before) or asked of the job (createDataset: the
\* dataset name, the path handed over and the model; whether it resolved)
FsEvent(op, path, existed) ==
    [op |-> op, path |-> path, existed |-> existed, name |-> <<>>, model |-> "", ok |-> TRUE]
JobEvent(op, name, path, model, ok) ==
    [op |-> op, path |-> path, existed |-> FALSE, name |-> name, model |-> model, ok |-> ok]

\* How a call ended: "returned" with a value, "threw", or "looping" when the
\* clock readings of the model ran out inside a for(;;) loop; `files` is the
\* file system it leaves
TmpOutcome(outcome, value, files, events) ==
    [outcome |-> outcome, value |-> value, files |-> files, events |-> events]

\* A loop condition that never looks for another name
MustRenameNever(exists, overwrite) == FALSE

\* line 235: fs.existsSync(fullPath) && !overwrite
MustRename(exists, overwrite) == exists /\ ~overwrite

\* lines 234-241: the loop that leaves with the path to write
RECURSIVE FreePath(_, _, _, _, _, _)
FreePath(files, dir, base, fullPath, overwrite, ticks) ==
    IF MustRename(existsSync(files, fullPath), overwrite)
    THEN IF ticks = <<>> THEN [looping |-> TRUE, path |-> fullPath]
         ELSE FreePath(files, dir, base,
                       PathJoinAll(dir, GenerateDateString(Head(ticks).d, <<>>, TRUE)
                                        \o <<"-">> \o base, <<>>),
                       overwrite, Tail(ticks))
    ELSE [looping |-> FALSE, path |-> fullPath]

TmpGenericFile == <<"t", "m", "p", "_", "g", "e", "n", "e", "r", "i", "c", "_", "f", "i", "l", "e">>
TxtExt == <<".", "t", "x", "t">>

\* lines 230-245, for parsedLoc = path.parse(loc): the directory is made when
\* fs.existsSync does not find it, the loop looks for the path to write, and
\* the file is written; fs.mkdirSync and fs.writeFileSync may throw
WriteTmpFile(files, loc, overwrite, ticks) ==
    LET dir == PathDir(loc)
        base == PathBase(loc)
        Written(files1, events1, path, existed, write) ==
            IF write.error # "" THEN TmpOutcome("threw", <<>>, files1, events1)
            ELSE TmpOutcome("returned", path, write.fs,
                            Append(events1, FsEvent("write", path, existed)))
        Freed(files1, events1, free) ==
            IF free.looping THEN TmpOutcome("looping", <<>>, files1, events1)
            ELSE Written(files1, events1, free.path, existsSync(files1, free.path),
                         writeFileSync(files1, free.path, <<>>))
        Looked(files1, events1) ==
            Freed(files1, events1,
                  FreePath(files1, dir, base, PathJoinAll(dir, base, <<>>), overwrite, ticks))
        Made(mkdir) ==
            IF mkdir.error # "" THEN TmpOutcome("threw", <<>>, files, <<>>)
            ELSE Looked(mkdir.fs, <<FsEvent("mkdir", dir, FALSE)>>)
    IN  IF existsSync(files, dir) THEN Looked(files, <<>>) ELSE Made(mkdirSync(files, dir))

\* CreateNewTmpFile (lines 219-246) with a string location.  env is the
\* value of the SwitchConfig variable and configTmp the
\* TempMetadataFileLocation of the configuration file it names.
CreateNewTmpFile(files, env, configTmp, location, contentIsString, overwrite, ticks) ==
    IF ~contentIsString THEN TmpOutcome("threw", <<>>, files, <<>>)
    ELSE IF PathDir(location) = <<>>
            /\ (GetGlobalSwitchConfig(env).outcome = "threw" \/ configTmp = <<Undefined>>)
    THEN \* line 224: GetGlobalSwitchConfig throws, or path.join gets undefined
         TmpOutcome("threw", <<>>, files, <<>>)
    ELSE LET loc1 == IF PathDir(location) = <<>>
                     THEN PathJoinAll(configTmp, PathBase(location), <<>>)
                     ELSE location
             noExt == PathExt(loc1) = <<>>
             loc2 == IF noExt
                     THEN PathJoinAll(PathDir(loc1), PathBase(loc1),
                                      GenerateNewName(TmpGenericFile, TxtExt,
                                                      Head(ticks).d, Head(ticks).fraction))
                     ELSE loc1
         IN  WriteTmpFile(files, loc2, overwrite, IF noExt THEN Tail(ticks) ELSE ticks)

TmpHtml    == <<"t", "m", "p", "H", "t", "m", "l">>
ReportHtml == <<"_", "r", "e", "p", "o", "r", "t", ".", "h", "t", "m", "l">>

\* generateHtmlReportAsFile (lines 157-159).  The clock is read for the name
\* of the file, then for the "Time Created" of the page (line 150), then by
\* CreateNewTmpFile; path.join throws when tmpFileLocation is undefined.
generateHtmlReportAsFile(files, env, configTmp, tmpFileLocation, ticks) ==
    IF tmpFileLocation = <<Undefined>> THEN TmpOutcome("threw", <<>>, files, <<>>)
    ELSE CreateNewTmpFile(files, env, configTmp,
                          PathJoinAll(tmpFileLocation,
                                      GenerateNewName(TmpHtml, ReportHtml, Head(ticks).d,
                                                      Head(ticks).fraction), <<>>),
                          TRUE, FALSE, Tail(Tail(ticks)))

\* sendJobToConnection (lines 161-170): the report is written to a file,
\* which is then sent with the job by the method of a connection manager
\* built with newName (given or not).  `file` is what
\* generateHtmlReportAsFile did, `sent` the calls send made on the job, and
\* fail the call on the job that rejects, or "none".
sendJobToConnection(options, job, files, env, configTmp, tmpFileLocation, newName, fail, ticks) ==
    LET noFile == TmpOutcome("threw", <<>>, files, <<>>)
        fromConfig == tmpFileLocation \in {<<Undefined>>, <<>>}
    IN  IF ~job THEN [outcome |-> "threw", error |-> "no job", sent |-> <<>>, file |-> noFile]
        ELSE IF fromConfig /\ GetGlobalSwitchConfig(env).outcome = "threw"
        THEN [outcome |-> "threw", error |-> "no configuration", sent |-> <<>>,
              file |-> noFile]
        ELSE CHOOSE end \in
                { IF file.outcome # "returned"
                  THEN [outcome |-> "threw", error |-> "no file", sent |-> <<>>, file |-> file]
                  ELSE [outcome |-> "resolved", error |-> "",
                        sent |-> send(Sender(options), "exists", newName, fail).calls,
                        file |-> file]
                  : file \in {generateHtmlReportAsFile(files, env, configTmp,
                                                       IF fromConfig THEN configTmp
                                                       ELSE tmpFileLocation, ticks)} }
                : TRUE

DatasetPrefix == <<"d", "a", "t", "a", "s", "e", "t">>

\* line 281: the path tried for the temporary file at one clock reading
DatasetLocation(store, tick) ==
    PathJoinAll(store, GenerateNewName(DatasetPrefix, <<>>, tick.d, tick.fraction) \o JsonExt,
                <<>>)

\* lines 280-286: the loop that leaves with a path that does not exist
RECURSIVE FreeDatasetLocation(_, _, _)
FreeDatasetLocation(files, store, ticks) ==
    IF ticks = <<>> THEN [looping |-> TRUE, path |-> <<>>]
    ELSE IF existsSync(files, DatasetLocation(store, Head(ticks)))
    THEN FreeDatasetLocation(files, store, Tail(ticks))
    ELSE [looping |-> FALSE, path |-> DatasetLocation(store, Head(ticks))]

\* lines 256-262: the temp directory when none was passed
TmpFileStore(tmp_file_store, env, configTmp) ==
    IF tmp_file_store \in {<<Undefined>>, <<>>}
    THEN IF GetGlobalSwitchConfig(env).outcome = "threw" THEN [threw |-> TRUE, store |-> <<>>]
         ELSE [threw |-> configTmp \in {<<Undefined>>, <<>>}, store |-> configTmp]
    ELSE [threw |-> FALSE, store |-> tmp_file_store]

\* Validation that lets any dataset name through
CreateDataSetValidateNoName(files, store, datasetName, data, datasetModel) ==
    IF datasetModel \notin {"JSON", "Opaque"} THEN "model"
    ELSE IF store.threw THEN "store"
    ELSE IF datasetModel = "JSON" /\ data.type # "object" THEN "data"
    ELSE IF datasetModel = "Opaque" /\ data.type # "string" THEN "data"
    ELSE IF ~existsSync(files, store.store) THEN "store"
    ELSE ""

\* lines 252-275: "" when every check passes, else the check that threw
CreateDataSetValidate(files, store, datasetName, data, datasetModel) ==
    IF datasetModel \notin {"JSON", "Opaque"} THEN "model"
    ELSE IF store.threw THEN "store"
    ELSE IF datasetModel = "JSON" /\ data.type # "object" THEN "data"
    ELSE IF datasetModel = "Opaque" /\ data.type # "string" THEN "data"
    ELSE IF datasetName = <<Undefined>> \/ datasetName = <<>> THEN "name"
    ELSE IF ~existsSync(files, store.store) THEN "store"
    ELSE ""

\* CreateDataSet (lines 251-302).  data is given by its typeof and, for a
\* string, the path it holds; hostFails says whether job.createDataset
\* rejects.  The value returned is the location the release handle keeps.
\* A call that ends without the event of job.createDataset threw before
\* line 295, and its promise is rejected when it is returned; the promise of
\* any other call settles after the await of that line.
CreateDataSet(files, env, configTmp, datasetName, data, tmp_file_store, datasetModel, ticks, hostFails) ==
    LET Asked(location, files1, written) ==
            TmpOutcome(IF hostFails THEN "threw" ELSE "returned", location, files1,
                       Append(written,
                              JobEvent("createDataset", datasetName, location, datasetModel,
                                       ~hostFails)))
        Written(location, existed, write) ==
            IF write.error # "" THEN TmpOutcome("threw", <<>>, files, <<>>)
            ELSE Asked(location, write.fs, <<FsEvent("write", location, existed)>>)
        Freed(free) ==
            IF free.looping THEN TmpOutcome("looping", <<>>, files, <<>>)
            ELSE Written(free.path, existsSync(files, free.path),
                         writeFileSync(files, free.path, <<>>))
        Stored(store) ==
            IF CreateDataSetValidate(files, store, datasetName, data, datasetModel) # ""
            THEN TmpOutcome("threw", <<>>, files, <<>>)
            ELSE IF datasetModel = "JSON"
            THEN Freed(FreeDatasetLocation(files, store.store, ticks))
            ELSE Asked(data.path, files, <<>>)
    IN  Stored(TmpFileStore(tmp_file_store, env, configTmp))

\* removeTmpFiles (lines 298-300) of the handle that keeps `location`:
\* fs.unlinkSync removes the file, and its failure is swallowed
removeTmpFiles(files, location) ==
    LET Removed(unlink) ==
            [files  |-> unlink.fs,
             events |-> IF unlink.error = "" THEN <<FsEvent("unlink", location, TRUE)>>
                        ELSE <<>>]
    IN  Removed(unlinkSync(files, location))

(***************************************************************************)
(* DataSetExists and GetDataSet (src/index.js 305-334).  The job answers   *)
(* listDatasets by failing ("fails") or with a list that holds the name    *)
(* ("with") or does not ("without"); it answers getDataset by failing or   *)
(* with the path of a file that cannot be read ("unreadable"), that holds  *)
(* no JSON ("badjson") or that holds JSON ("json").  job.log resolves.     *)
(***************************************************************************)
\* A call made on the job, and the function that made it
DataSetCall(op, level, from) == [op |-> op, level |-> level, from |-> from]

\* A catch block that logs nothing
CatchLogNothing(from) == <<>>

\* lines 315 and 331: await job.log("warning", e.toString())
CatchLog(from) == <<DataSetCall("log", "warning", from)>>

\* typeof of the value a throw statement throws: an Error object as it was
\* caught, or the string e.toString() gives
ThrownError == "object"
ErrorToString(e) == "string"

\* DataSetExists (lines 305-320)
DataSetExists(list) ==
    LET asked == <<DataSetCall("listDatasets", "", "DataSetExists")>>
    IN  IF list = "fails"
        THEN [value |-> FALSE, threw |-> FALSE, calls |-> asked \o CatchLog("DataSetExists")]
        ELSE [value |-> list = "with", threw |-> FALSE, calls |-> asked]

\* GetDataSet (lines 323-334)
GetDataSet(list, get) ==
    LET exists == DataSetExists(list)
        asked == Append(exists.calls, DataSetCall("getDataset", "", "GetDataSet"))
        caught(calls) == [outcome |-> "threw", thrown |-> ErrorToString(ThrownError),
                          calls |-> calls \o CatchLog("GetDataSet")]
    IN  IF exists.threw \/ ~exists.value THEN caught(exists.calls)
        ELSE IF get # "json" THEN caught(asked)
        ELSE [outcome |-> "returned", thrown |-> "", calls |-> asked]

(***************************************************************************)
(* Numbers and their text (parseFloat and Number.prototype.toString of     *)
(* ECMAScript), which the cells of a CSV file go through when they are     *)
(* read with parseNumbers and written back.                                *)
(***************************************************************************)
\* Number of bits in the exponent of a Number (IEEE 754 binary64)
ExponentBits == 11

\* A finite Number is below 2^MaxBinaryExponent, one at or above
\* 2^MinNormalExponent has a full significand, and the last bit of any
\* stands for 2^LowestExponent
MaxBinaryExponent == 2^(ExponentBits - 1)
MinNormalExponent == 2 - MaxBinaryExponent
LowestExponent    == MinNormalExponent - (SignificandBits - 1)

\* 10^DecimalOverflow is more than any finite Number, and 10^DecimalUnderflow
\* less than half of the least one
DecimalOverflow  == 309
DecimalUnderflow == 0 - 324

\* Most digits of an exponent that are read as a number; more of them stand
\* for an exponent past both limits
ExponentDigits == 6

IsDigit(c) == \E k \in 1..Len(DigitChars) : DigitChars[k] = c
DigitOf(c) == (CHOOSE k \in 1..Len(DigitChars) : DigitChars[k] = c) - 1
AllDigits(s) == \A i \in 1..Len(s) : IsDigit(s[i])

Infinity == <<"I", "n", "f", "i", "n", "i", "t", "y">>

Zeros(n) == [i \in 1..n |-> 0]

\* A digit sequence without the zeros it ends with
StripTrailingZeros(digits) ==
    LET set == {i \in 1..Len(digits) : digits[i] # 0}
    IN  IF set = {} THEN <<>> ELSE SubSeq(digits, 1, Max(set))

\* The parts of the text of a decimal literal: its sign, the digits before
\* and after the point, and the sign and the digits of its exponent
LiteralParts(t) ==
    LET signed == t # <<>> /\ t[1] \in {"+", "-"}
        body == IF signed THEN Tail(t) ELSE t
        es == {i \in 1..Len(body) : body[i] \in {"e", "E"}}
        mantissa == IF es = {} THEN body ELSE SubSeq(body, 1, Min(es) - 1)
        exponent == IF es = {} THEN <<>> ELSE SubSeq(body, Min(es) + 1, Len(body))
        dots == {i \in 1..Len(mantissa) : mantissa[i] = "."}
        esigned == exponent # <<>> /\ exponent[1] \in {"+", "-"}
    IN  [negative    |-> signed /\ t[1] = "-",
         body        |-> body,
         whole       |-> IF dots = {} THEN mantissa ELSE SubSeq(mantissa, 1, Min(dots) - 1),
         fraction    |-> IF dots = {} THEN <<>>
                         ELSE SubSeq(mantissa, Min(dots) + 1, Len(mantissa)),
         hasExponent |-> es # {},
         expNegative |-> esigned /\ exponent[1] = "-",
         expDigits   |-> IF esigned THEN Tail(exponent) ELSE exponent]

\* Whether parseFloat reads the whole of t as a number: a decimal literal
\* (digits with or without a point, and with or without an exponent) or
\* Infinity, with or without a sign
IsNumberText(t) ==
    LET Literal(p) ==
            \/ p.body = Infinity
            \/ /\ AllDigits(p.whole) /\ AllDigits(p.fraction)
               /\ Len(p.whole) + Len(p.fraction) > 0
               /\ p.hasExponent => (p.expDigits # <<>> /\ AllDigits(p.expDigits))
    IN  Literal(LiteralParts(t))

\* a * m^n, for m up to ChunkBase
RECURSIVE TimesPower(_, _, _)
TimesPower(a, m, n) ==
    IF a = <<>> \/ n = 0 THEN a
    ELSE IF n = 1 THEN MulAdd(a, m, 0)
    ELSE TimesPower(TimesPower(a, m, n \div 2), m, n - n \div 2)

\* a * 10^n and a * 5^n, ChunkDigits factors at a time
TimesTenTo(a, n) ==
    TimesPower(TimesPower(a, ChunkBase, n \div ChunkDigits), 10, n % ChunkDigits)
TimesFiveTo(a, n) ==
    TimesPower(TimesPower(a, 5^ChunkDigits, n \div ChunkDigits), 5, n % ChunkDigits)

\* The limbs of the number that decimal digits spell
LimbsOfDecimal(digits) ==
    LimbsOfDigits(Zeros((ChunkDigits - (Len(digits) % ChunkDigits)) % ChunkDigits) \o digits,
                  <<>>)

\* A binary number rounded to its first `keep` bits, ties to even, with
\* zeros for the others; `rest` says whether anything but zeros follows the
\* bits.  With nothing to keep the number is rounded to the place before its
\* first bit, and is zero (no bits) when it is at most half of that.
RoundToBits(bits, rest, keep) ==
    IF Len(bits) <= keep THEN bits
    ELSE IF keep < 0 THEN <<>>
    ELSE IF keep = 0
    THEN IF rest \/ \E i \in 2..Len(bits) : bits[i] = 1 THEN <<1>> \o Zeros(Len(bits))
         ELSE <<>>
    ELSE RoundBits(SubSeq(bits, 1, keep + 1),
                   rest \/ \E i \in (keep + 2)..Len(bits) : bits[i] = 1)
         \o Zeros(Len(bits) - keep)

NumberZero     == [kind |-> "zero",     bits |-> <<>>, exponent |-> 0]
NumberInfinity == [kind |-> "infinity", bits |-> <<>>, exponent |-> 0]

\* The Number nearest to digits * 10^exponent, for digits that are not empty
\* and do not start with a zero: bits * 2^exponent with the last bit set, or
\* zero, or infinity.  The value times a power of two is worked out to more
\* bits than a significand holds, and rounded to the bits a Number of its
\* size has.
NearestNumber(digits, exponent) ==
    LET Canonical(bits, scale) ==
            LET ones == {i \in 1..Len(bits) : bits[i] = 1}
            IN  IF ones = {} THEN NumberZero
                ELSE IF scale + Len(bits) > MaxBinaryExponent THEN NumberInfinity
                ELSE [kind |-> "finite", bits |-> SubSeq(bits, 1, Max(ones)),
                      exponent |-> scale + Len(bits) - Max(ones)]
        Rounded(bits, rest, scale) ==
            Canonical(RoundToBits(bits, rest,
                                  IF scale + Len(bits) - 1 >= MinNormalExponent
                                  THEN SignificandBits
                                  ELSE scale + Len(bits) - LowestExponent),
                      scale)
        Whole == Rounded(BitsOfLimbs(TimesTenTo(LimbsOfDecimal(digits), exponent)), FALSE, 0)
        Fraction(chunks) ==
            LET Quotient(d) == Rounded(BitsOfLimbs(d.q), d.rest,
                                       0 - LimbBits * (chunks + ChunkDigits))
            IN  Quotient(DivTimes(TimesTenTo(LimbsOfDecimal(digits),
                                             ChunkDigits * chunks + exponent)
                                  \o Zeros(chunks + ChunkDigits),
                                  ChunkBase, chunks, FALSE))
    IN  IF exponent + Len(digits) > DecimalOverflow THEN NumberInfinity
        ELSE IF exponent + Len(digits) <= DecimalUnderflow THEN NumberZero
        ELSE IF exponent >= 0 THEN Whole
        ELSE Fraction((ChunkDigits - 1 - exponent) \div ChunkDigits)

\* parseFloat(t) of a text that is a number as a whole
parseFloat(t) ==
    LET Exponent(p) ==
            LET e == StripLeadingZeros([i \in 1..Len(p.expDigits) |-> DigitOf(p.expDigits[i])])
                n == IF Len(e) > ExponentDigits THEN 10^ExponentDigits ELSE DigitsValue(e, 10)
            IN  (IF p.expNegative THEN 0 - n ELSE n) - Len(p.fraction)
        Value(p, digits) ==
            IF StripTrailingZeros(digits) = <<>> THEN NumberZero
            ELSE NearestNumber(StripTrailingZeros(digits),
                               Exponent(p) + Len(digits) - Len(StripTrailingZeros(digits)))
        Parsed(p) ==
            [negative |-> p.negative]
            @@ (IF p.body = Infinity THEN NumberInfinity
                ELSE Value(p, StripLeadingZeros([i \in 1..Len(p.whole) + Len(p.fraction) |->
                                                    DigitOf((p.whole \o p.fraction)[i])])))
    IN  Parsed(LiteralParts(t))

\* The decimal digits of a finite Number that is not zero, all of them, and
\* the place of the point after the first of them: 0.d1 d2 ... * 10^point
DecimalOfNumber(x) ==
    LET Placed(digits, exponent) == [digits |-> digits, point |-> Len(digits) + exponent]
    IN  IF x.exponent >= 0
        THEN Placed(StripLeadingZeros(DigitsOfLimbs(LimbsOfBits(x.bits \o Zeros(x.exponent)))),
                    0)
        ELSE Placed(StripLeadingZeros(DigitsOfLimbs(TimesFiveTo(LimbsOfBits(x.bits),
                                                                0 - x.exponent))),
                    x.exponent)

\* Decimal digits plus one in their last place
IncrementDigits(digits) ==
    LET low == {i \in 1..Len(digits) : digits[i] # 9}
    IN  IF low = {} THEN <<1>> \o Zeros(Len(digits))
        ELSE [i \in 1..Len(digits) |->
                 IF i < Max(low) THEN digits[i] ELSE IF i = Max(low) THEN digits[i] + 1 ELSE 0]

\* The digits Number.prototype.toString gives a finite Number x that is not
\* zero: as few as stand for no other Number, and of those the nearest to x
\* (the even ones when two are as near).  With k digits there are the first
\* k of the digits of x, and those plus one.
RECURSIVE ShortestDigits(_, _, _)
ShortestDigits(x, exact, k) ==
    LET below == SubSeq(exact.digits, 1, k)
        above == IncrementDigits(below)
        after == SubSeq(exact.digits, k + 1, Len(exact.digits))
        Result(digits) ==
            [digits |-> StripTrailingZeros(digits), point |-> exact.point + Len(digits) - k]
        nearerAbove ==
            \/ after[1] > 5
            \/ after[1] = 5 /\ \E i \in 2..Len(after) : after[i] # 0
            \/ after[1] = 5 /\ below[k] % 2 = 1 /\ \A i \in 2..Len(after) : after[i] = 0
        Pick(isBelow, isAbove) ==
            IF isBelow /\ (~isAbove \/ ~nearerAbove) THEN Result(below)
            ELSE IF isAbove THEN Result(above)
            ELSE ShortestDigits(x, exact, k + 1)
    IN  IF k >= Len(exact.digits)
        THEN [digits |-> StripTrailingZeros(exact.digits), point |-> exact.point]
        ELSE Pick(NearestNumber(below, exact.point - k) = x,
                  NearestNumber(StripTrailingZeros(above),
                                exact.point - k + Len(above)
                                - Len(StripTrailingZeros(above))) = x)

\* Most places before and after the point that toString writes digits in
\* without an exponent
PlainDigits   == 21
PlainFraction == 6

\* String(x) of a Number (Number.prototype.toString)
StringOfNumber(x) ==
    LET Chars(digits) == [i \in 1..Len(digits) |-> DigitChars[digits[i] + 1]]
        Layout(s, n) ==
            IF Len(s) <= n /\ n <= PlainDigits THEN s \o [i \in 1..(n - Len(s)) |-> "0"]
            ELSE IF 0 < n /\ n <= PlainDigits
            THEN SubSeq(s, 1, n) \o <<".">> \o SubSeq(s, n + 1, Len(s))
            ELSE IF 0 - PlainFraction < n /\ n <= 0
            THEN <<"0", ".">> \o [i \in 1..(0 - n) |-> "0"] \o s
            ELSE (IF Len(s) = 1 THEN s ELSE <<s[1], ".">> \o Tail(s))
                 \o <<"e", IF n >= 1 THEN "+" ELSE "-">>
                 \o NumberToString(IF n >= 1 THEN n - 1 ELSE 1 - n)
        Shortest(d) == Layout(Chars(d.digits), d.point)
    IN  IF x.kind = "zero" THEN <<"0">>
        ELSE (IF x.negative THEN <<"-">> ELSE <<>>)
             \o (IF x.kind = "infinity" THEN Infinity
                 ELSE Shortest(ShortestDigits([kind |-> x.kind, bits |-> x.bits,
                                               exponent |-> x.exponent],
                                              DecimalOfNumber(x), 1)))

(***************************************************************************)
(* CsvProcessor (src/index.js 522-632).                                    *)
(***************************************************************************)
\* The text of a CSV file is the sequence of its characters
Comma          == ","
Quote          == "\""
LineFeed       == "\n"
CarriageReturn == "\r"
WhiteSpace     == {" ", "\t", LineFeed, CarriageReturn}

\* String.prototype.trim
Trim(s) ==
    LET kept == {i \in 1..Len(s) : s[i] \notin WhiteSpace}
    IN  IF kept = {} THEN <<>> ELSE SubSeq(s, Min(kept), Max(kept))

\* parts.join(separator)
RECURSIVE Join(_, _)
Join(parts, separator) ==
    IF parts = <<>> THEN <<>>
    ELSE IF Len(parts) = 1 THEN Head(parts)
    ELSE Join(SubSeq(parts, 1, Len(parts) \div 2), separator) \o separator
         \o Join(SubSeq(parts, Len(parts) \div 2 + 1, Len(parts)), separator)

\* The parser at the place `at` of the text, where a record starts: the
\* records it has read, the cells of this one and the cell it is in, whether
\* anything of the record was read, whether it is inside quotes, whether the
\* last character was a quote inside quotes (which ends them unless a second
\* one follows), and whether the last character was a carriage return that
\* ended a record
NewRecord(rows, at) ==
    [rows |-> rows, columns |-> <<>>, column |-> <<>>, open |-> FALSE, at |-> at,
     place |-> at, quoted |-> FALSE, pending |-> FALSE, afterCR |-> FALSE]

\* The parser of CsvReadableStream with its default options after the
\* character c at its place in the text: cells are separated by commas and
\* records by a line feed, a carriage return or both; a quote at the start
\* of a cell opens a quoted part, in which a comma and a line break are
\* characters of the cell and two quotes stand for one; a line with nothing
\* on it is a record of one empty cell.
CsvStep(st, c) ==
    LET here == [st EXCEPT !.place = @ + 1]
        cur == [here EXCEPT !.quoted = FALSE, !.pending = FALSE, !.afterCR = FALSE]
    IN  IF st.quoted /\ ~st.pending
        THEN IF c = Quote THEN [here EXCEPT !.pending = TRUE]
             ELSE [here EXCEPT !.column = Append(@, c)]
        ELSE IF st.quoted /\ c = Quote
        THEN [here EXCEPT !.pending = FALSE, !.column = Append(@, Quote)]
        ELSE IF c = LineFeed /\ st.afterCR THEN [cur EXCEPT !.at = st.place + 1]
        ELSE IF c \in {LineFeed, CarriageReturn}
        THEN [NewRecord(Append(st.rows, [cells |-> Append(st.columns, st.column),
                                         at |-> st.at]),
                        st.place + 1) EXCEPT !.afterCR = (c = CarriageReturn)]
        ELSE IF c = Comma
        THEN [cur EXCEPT !.columns = Append(@, st.column), !.column = <<>>, !.open = TRUE]
        ELSE IF c = Quote /\ st.column = <<>> THEN [cur EXCEPT !.quoted = TRUE, !.open = TRUE]
        ELSE [cur EXCEPT !.column = Append(@, c), !.open = TRUE]

\* The parser after n more characters of the text, or at its end
RECURSIVE SplitCsv(_, _, _)
SplitCsv(text, n, st) ==
    IF st.place > Len(text) \/ n = 0 THEN st
    ELSE IF n = 1 THEN CsvStep(st, text[st.place])
    ELSE SplitCsv(text, n - n \div 2, SplitCsv(text, n \div 2, st))

\* One cell as CsvReadableStream({parseNumbers: true, parseBooleans: true,
\* trim: true}) of line 614 hands it over: the text trimmed, a boolean when
\* that is true or false, and a number when it is the text of one.  A number
\* is held as the text String gives it, which is the same for equal Numbers
\* and for no others.
ParseCell(text) ==
    LET Typed(t) ==
            IF t \in {<<"t", "r", "u", "e">>, <<"f", "a", "l", "s", "e">>}
            THEN <<BooleanTag>> \o t
            ELSE IF IsNumberText(t) THEN <<NumberTag>> \o StringOfNumber(parseFloat(t))
            ELSE t
    IN  Typed(Trim(text))

ParseRecord(record) == [i \in 1..Len(record) |-> ParseCell(record[i])]

\* The "data" events of the stream of a CSV text: the cells of each record,
\* and the place in the text where the record starts
ParseCsv(text) ==
    LET Events(split) ==
            [k \in 1..Len(split) |->
                [cells |-> ParseRecord(split[k].cells), at |-> split[k].at]]
        \* what is left of a last line that does not end is a record too
        Ended(st) ==
            IF st.open
            THEN Append(st.rows, [cells |-> Append(st.columns, st.column), at |-> st.at])
            ELSE st.rows
    IN  Events(Ended(SplitCsv(text, Len(text), NewRecord(<<>>, 1))))

\* The number of the line of a text that its character i is on: a line ends
\* with a line feed, or with a carriage return that no line feed follows
LineAt(text, i) ==
    1 + Cardinality({j \in 1..(i - 1) :
                        \/ text[j] = LineFeed
                        \/ text[j] = CarriageReturn
                           /\ ~(j < Len(text) /\ text[j + 1] = LineFeed)})

\* String(value) of a cell that is a text, a number or a boolean
CellString(value) == IF IsString(value) THEN value ELSE Tail(value)

\* s.replace(/"/g, '""')
RECURSIVE DoubleQuotes(_)
DoubleQuotes(s) ==
    IF s = <<>> THEN <<>>
    ELSE IF Len(s) = 1 THEN (IF s[1] = Quote THEN <<Quote, Quote>> ELSE s)
    ELSE DoubleQuotes(SubSeq(s, 1, Len(s) \div 2))
         \o DoubleQuotes(SubSeq(s, Len(s) \div 2 + 1, Len(s)))

\* One cell as the array writer of line 593 writes it: nothing for undefined
\* and String(value) for any other value, in quotes (with the quotes in it
\* doubled) when it holds a comma, a quote or a line break
FormatCell(value) ==
    LET Quoted(s) ==
            IF \E i \in 1..Len(s) : s[i] \in {Comma, Quote, LineFeed, CarriageReturn}
            THEN <<Quote>> \o DoubleQuotes(s) \o <<Quote>>
            ELSE s
    IN  IF value = <<Undefined>> THEN <<>> ELSE Quoted(CellString(value))

FormatRecord(record) == Join([i \in 1..Len(record) |-> FormatCell(record[i])], <<Comma>>)

\* The text the writer makes of records: each on a line of its own
RECURSIVE FormatCsv(_)
FormatCsv(records) ==
    IF records = <<>> THEN <<>>
    ELSE IF Len(records) = 1 THEN FormatRecord(records[1]) \o <<LineFeed>>
    ELSE FormatCsv(SubSeq(records, 1, Len(records) \div 2))
         \o FormatCsv(SubSeq(records, Len(records) \div 2 + 1, Len(records)))

FileMatchResults == <<"F", "i", "l", "e", "M", "a", "t", "c", "h", "R", "e", "s", "u", "l", "t", "s">>
A1      == <<"A", "1">>
B2      == <<"B", "2">>
ID      == <<"I", "D">>
id      == <<"i", "d">>
Ref     == <<"R", "e", "f">>
Qty     == <<"Q", "t", "y">>
Ok      == <<"O", "k">>
Empty   == <<>>

\* The text of a file that has these cells on its lines, as they are
RECURSIVE CsvLines(_)
CsvLines(records) ==
    IF records = <<>> THEN <<>>
    ELSE Join(Head(records), <<Comma>>) \o <<LineFeed>> \o CsvLines(Tail(records))

\* The texts of the CSV files, the header line first
CsvOneRow   == CsvLines(<< <<ID, FileMatchResults>>, <<A1, Empty>> >>)
CsvTwoRows  == CsvLines(<< <<ID, FileMatchResults>>, <<A1, Empty>>, <<B2, Empty>> >>)
CsvNoResCol == CsvLines(<< <<ID, Ref>>, <<B2, A1>>, <<A1, B2>> >>)
CsvDupCol   == CsvLines(<< <<ID, id, FileMatchResults>>, <<A1, A1, Empty>> >>)
CsvNoRows   == CsvLines(<< <<ID, FileMatchResults>> >>)
\* Cells with spaces around them and cells that hold numbers
CsvSpaced   == CsvLines(<< <<ID, <<" ">> \o Qty \o <<" ">>, FileMatchResults>>,
                          <<<<" ">> \o A1, <<"0", "7">>, Empty>>,
                          <<B2 \o <<" ">>, <<"0">>, Empty>> >>)
\* A header that is a number
CsvNumberHeader == CsvLines(<< <<ID, <<"7">>, FileMatchResults>>, <<A1, B2, Empty>> >>)
\* Quoted cells that hold a line break, a comma and a quote, booleans, a
\* decimal fraction and an integer no Number stands for; lines that end with
\* a carriage return and a line feed, and a last line that does not end:
\*     "I(LF)D",Ok,Qty(CR)(LF)"A,1",true,-1.50(CR)(LF)"a""b",false,9007199254740993
CsvQuoted ==
    <<Quote, "I", LineFeed, "D", Quote, Comma>> \o Ok \o <<Comma>> \o Qty
    \o <<CarriageReturn, LineFeed>>
    \o <<Quote, "A", Comma, "1", Quote, Comma, "t", "r", "u", "e", Comma,
         "-", "1", ".", "5", "0">>
    \o <<CarriageReturn, LineFeed>>
    \o <<Quote, "a", Quote, Quote, "b", Quote, Comma, "f", "a", "l", "s", "e", Comma,
         "9", "0", "0", "7", "1", "9", "9", "2", "5", "4", "7", "4", "0", "9", "9", "3">>

CsvTexts ==
    {CsvOneRow, CsvTwoRows, CsvNoResCol, CsvDupCol, CsvNoRows, CsvSpaced, CsvNumberHeader,
     CsvQuoted}

\* ParseCsv of each of these texts
ParsedTexts == [text \in CsvTexts |-> ParseCsv(text)]

\* The "data" events of the stream of line 614 for a file with this text
CsvReadableStream(text) ==
    IF text \in CsvTexts THEN ParsedTexts[text] ELSE ParseCsv(text)

\* lines 623-625: rowsStartIndex is set once, by the first data row
FirstRowIndex(rowsStartIndex, rowIndex) ==
    IF rowsStartIndex = 0 THEN rowIndex ELSE rowsStartIndex

\* The stream handler of lines 615-628 over the "data" events of the file
RECURSIVE CsvRead(_, _, _, _)
CsvRead(events, rowIndex, isHeader, data) ==
    IF rowIndex > Len(events) THEN data
    ELSE IF isHeader
    THEN CsvRead(events, rowIndex + 1, FALSE,
                 [data EXCEPT !.headers = events[rowIndex].cells])
    ELSE CsvRead(events, rowIndex + 1, FALSE,
                 [data EXCEPT !.rowsStartIndex = FirstRowIndex(@, rowIndex),
                              !.rows = Append(@, events[rowIndex].cells)])

\* The text fs.createReadStream(p, "utf-8") gives the parser
ReadCsvFile(fs, p) == FileData(fs, StackPath(Resolve(fs, p)))

\* The table the promise of new CsvProcessor resolves with (lines 609-631),
\* for a file with this text
CsvProcessor(text, firstRowContainsHeaders) ==
    CsvRead(CsvReadableStream(text), 1, firstRowContainsHeaders,
            [headers |-> <<>>, rows |-> <<>>, rowsStartIndex |-> 0])

CsvExt == <<".", "c", "s", "v">>

\* fs.statSync(p).isFile() of a path that exists
statIsFile(fs, p) == isFile(statSync(fs, p))

\* new CsvProcessor(location, options), lines 522-531: the checks of the
\* constructor, which throw, and the promise it returns, which is pending
\* until the stream has been read
NewCsvProcessor(fs, location, firstRowContainsHeaders) ==
    LET none == [headers |-> <<>>, rows |-> <<>>, rowsStartIndex |-> 0]
    IN  IF location = <<>> \/ ~existsSync(fs, location)
        THEN [outcome |-> "threw", error |-> "does not exist", data |-> none]
        ELSE IF ~statIsFile(fs, location)
        THEN [outcome |-> "threw", error |-> "not a file", data |-> none]
        ELSE IF PathExt(location) # CsvExt
        THEN [outcome |-> "threw", error |-> "not a .csv file", data |-> none]
        ELSE [outcome |-> "pending", error |-> "", data |-> none]

\* lines 610-627: the table the "data" handlers have built when the stream
\* has handed them the records of the text it read from the file; the option
\* is true when the caller gave none
StreamData(text, firstRowContainsHeaders) ==
    CsvProcessor(text,
                 IF firstRowContainsHeaders.t = "undef" THEN TRUE
                 ELSE Truthy(firstRowContainsHeaders))

\* Records that leave the header out
SaveRecordsRowsOnly(data) == data.rows

\* lines 595-603: the records saveTo hands to the writer
SaveRecords(data) ==
    (IF Len(data.headers) > 0 THEN <<data.headers>> ELSE <<>>)
    \o (IF Len(data.rows) > 0 THEN data.rows ELSE <<>>)

\* saveTo (lines 584-606) of a processor loaded from `original`, up to the
\* await of line 605: the promise it returns (rejected when fs.mkdirSync
\* threw, else pending), the path and the records handed to the writer, the
\* directory line 591 made (or none), and the file system it leaves
saveTo(fs, data, original, location) ==
    LET loc1 == IF location = <<>>
                THEN PathJoinAll(PathDir(original), PathBase(original), <<>>)
                ELSE location
        loc2 == IF PathExt(loc1) = <<>>
                THEN PathJoinAll(loc1, PathBase(original), <<>>)
                ELSE loc1
        Handed(path, records, dir, mkdir) ==
            IF mkdir.error # ""
            THEN [outcome |-> "rejected", path |-> path, records |-> <<>>, mkdir |-> <<>>,
                  fs |-> fs]
            ELSE [outcome |-> "pending", path |-> path, records |-> records,
                  mkdir |-> dir, fs |-> mkdir.fs]
        Located(path) ==
            IF existsSync(fs, PathDir(path))
            THEN Handed(path, SaveRecords(data), <<>>, [error |-> "", fs |-> fs])
            ELSE Handed(path, SaveRecords(data), PathDir(path), mkdirSync(fs, PathDir(path)))
    IN  Located(loc2)

\* line 605: the writer puts the text of the records in the file at the
\* path, in place of what the file held, and the promise of saveTo settles
\* with what writing did
writeRecords(fs, path, records) ==
    LET Done(write) ==
            [outcome |-> IF write.error = "" THEN "resolved" ELSE "rejected", fs |-> write.fs]
    IN  Done(writeFileSync(fs, path, FormatCsv(records)))

\* findAllHeaders (lines 555-573); index is the header's position, counted
\* from 1.  The loop goes through every header and calls toLowerCase on it
\* (line 562), which a header that is a number or a boolean does not have:
\* the call then throws a TypeError and returns nothing.
findAllHeaders(headers, keyword) ==
    LET kw == toLowerCase(keyword)
        hit == {i \in 1..Len(headers) : toLowerCase(headers[i]) = kw}
        RECURSIVE collect(_)
        collect(i) ==
            IF i > Len(headers) THEN <<>>
            ELSE IF i \in hit
            THEN <<[index |-> i, value |-> headers[i]]>> \o collect(i + 1)
            ELSE collect(i + 1)
    IN  IF \E i \in 1..Len(headers) : ~IsString(headers[i])
        THEN [threw |-> TRUE, results |-> <<>>]
        ELSE [threw |-> FALSE, results |-> collect(1)]

(***************************************************************************)
(* MatchFilesToCsvData (src/index.js 652-764).                             *)
(***************************************************************************)
PdfExt == <<".", "p", "d", "f">>

allowedMatchMethods              == {"full", "partial"}
allowedResultsAppendMethod       == {"full", "name", "nameProper"}
allowedIfColumnToMatchNotPresent == {"success", "warning", "error"}

\* A cell, or a value written into one, that is the JavaScript undefined
UndefinedCell == <<Undefined>>

\* lines 669-675: the fields of a rule as the loop rewrites them.  Line 675
\* (x || "success") puts the default in place of every value that is falsy,
\* the empty string as well as undefined.
NormalizeRule(match) ==
    [columnToMatch             |-> match.columnToMatch,
     columnForResults          |-> IF match.columnForResults = <<>> THEN FileMatchResults
                                   ELSE match.columnForResults,
     matchMethod               |-> IF match.matchMethod = Undefined THEN "full"
                                   ELSE match.matchMethod,
     resultsAppendMethod       |-> IF match.resultsAppendMethod = Undefined THEN ""
                                   ELSE match.resultsAppendMethod,
     scanLocation              |-> match.scanLocation,
     useDifferentRootLocation  |-> match.useDifferentRootLocation,
     ifColumnToMatchNotPresent |-> IF match.ifColumnToMatchNotPresent \in {Undefined, ""}
                                   THEN "success"
                                   ELSE match.ifColumnToMatchNotPresent]

\* lines 677-684: the checks of one rewritten rule, in their order
ValidateRule(fs, match) ==
    IF match.columnToMatch = <<>> THEN "columnToMatch not defined"
    ELSE IF match.columnForResults = <<>> THEN "columnForResults not defined"
    ELSE IF match.scanLocation = <<>> THEN "scanLocation not provided"
    ELSE IF ~existsSync(fs, match.scanLocation) THEN "scanLocation does not exist"
    ELSE IF PathExt(match.scanLocation) # <<>> THEN "scanLocation is a file"
    ELSE IF match.matchMethod \notin allowedMatchMethods THEN "matchMethod not allowed"
    ELSE IF match.resultsAppendMethod \notin allowedResultsAppendMethod
         THEN "resultsAppendMethod not allowed"
    ELSE IF match.ifColumnToMatchNotPresent \notin allowedIfColumnToMatchNotPresent
         THEN "ifColumnToMatchNotPresent not allowed"
    ELSE ""

\* RulesToValidate when only the first rule is checked
RulesToValidateFirstOnly(matching) == IF Len(matching) > 0 THEN 1 ELSE 0

\* How many rules of the sequence the loop of lines 668-685 goes through
RulesToValidate(matching) == Len(matching)

\* The loop of lines 668-685: the first error thrown, or ""
RECURSIVE ValidateRules(_, _, _, _)
ValidateRules(fs, matching, k, last) ==
    IF k > last THEN ""
    ELSE LET err == ValidateRule(fs, NormalizeRule(matching[k]))
         IN  IF err # "" THEN err ELSE ValidateRules(fs, matching, k + 1, last)

\* lines 665-685: everything checked before the CSV file is opened
ValidateCall(fs, options) ==
    IF ~existsSync(fs, options.csvLocation) THEN "csv file does not exist"
    ELSE IF PathExt(options.csvLocation) # CsvExt THEN "not a .csv file"
    ELSE ValidateRules(fs, options.matching, 1, RulesToValidate(options.matching))

\* What line 728 puts in foundFiles.  FindInLocation is an async function and
\* the call is not awaited: the value is the promise, never the response.
FoundFiles(promise) == [kind |-> "promise", promise |-> promise, items |-> <<>>]

\* foundFiles.length: a promise has no such property
PropLength(v) ==
    IF v.kind = "array" THEN [defined |-> TRUE, n |-> Len(v.items)]
    ELSE [defined |-> FALSE, n |-> 0]

\* foundFiles[0]
PropFirst(v) ==
    IF v.kind = "array" /\ Len(v.items) > 0 THEN v.items[1] ELSE UndefinedCell

\* x < n and x > n, which are both false when x is undefined
JsLess(x, n)    == x.defined /\ x.n < n
JsGreater(x, n) == x.defined /\ x.n > n

\* row[index] = value; an index past the end lengthens the row
SetCell(row, index, value) ==
    [i \in 1..(IF index > Len(row) THEN index ELSE Len(row)) |->
        IF i = index THEN value
        ELSE IF i <= Len(row) THEN row[i] ELSE UndefinedCell]

RECURSIVE SetCells(_, _, _)
SetCells(row, columns, value) ==
    IF columns = <<>> THEN row
    ELSE SetCells(SetCell(row, Head(columns).index, value), Tail(columns), value)

\* row[index]
GetCell(row, index) == IF index <= Len(row) THEN row[index] ELSE UndefinedCell

\* A narrative: the fields its text is built from
Message(kind, value, column, row, files, count) ==
    [kind |-> kind, value |-> value, column |-> column, row |-> row,
     files |-> files, count |-> count]

\* The options of line 719-723
MatchFindOptions(match) ==
    [allowedExt         |-> <<PdfExt>>,
     partialMatch       |-> IF match.matchMethod = Undefined THEN JStr("partial")
                            ELSE JStr(match.matchMethod),
     caseSensitive      |-> FALSE,
     returnType         |-> IF match.resultsAppendMethod = Undefined THEN JStr("full")
                            ELSE JStr(match.resultsAppendMethod),
     depth              |-> 0,
     lookFor            |-> Undefined,
     ifHaystackNotFound |-> Undefined]

\* line 729: the row number the narratives of a row report; i is the row's
\* 0-based offset in rows
RowIndex(i, rowsStartIndex) == i + rowsStartIndex

\* One pass of the loop body of lines 726-751 on row i.  st.threw is set
\* where path.parse is given undefined and throws a TypeError.  Each pass
\* leaves an event: the row before and after, the narratives it added, the
\* results columns, and the lookup it made.
ProcessRow(fs, st, match, k, columnToMatch, columnsForResults, i) ==
    LET row == st.rows[i]
        toMatch == GetCell(row, columnToMatch.index)
        o == MatchFindOptions(match)
        rowIndex == RowIndex(i - 1, st.rowsStartIndex)
        \* lines 729-751, with the foundFiles of line 728
        Rest(foundFiles) ==
            LET len == PropLength(foundFiles)
                event == [rule |-> k, row |-> i, rowIndex |-> rowIndex, headers |-> st.headers,
                          toMatch |-> toMatch, before |-> row,
                          after |-> row, narratives |-> <<>>, columns |-> columnsForResults,
                          lookup |-> [options |-> FindOptions(o),
                                      state |-> foundFiles.promise.state,
                                      reason |-> foundFiles.promise.reason],
                          threw |-> FALSE]
                warn(m) == [st EXCEPT !.reporter = addWarningRow(@, <<m>>),
                                      !.events = Append(@, [event EXCEPT !.narratives =
                                                     <<[severity |-> "warning", message |-> m]>>])]
            IN  IF JsLess(len, 1)
                THEN warn(Message("noMatch", toMatch, columnToMatch.value, rowIndex, <<>>, 0))
                ELSE IF JsGreater(len, 1)
                THEN warn(Message("multiple", toMatch, columnToMatch.value, rowIndex,
                                  [j \in 1..Len(foundFiles.items) |-> PathBase(foundFiles.items[j])],
                                  len.n))
                ELSE
                LET first == PropFirst(foundFiles)
                    replaceRoot == match.resultsAppendMethod = "full"
                                      /\ match.useDifferentRootLocation # <<>>
                IN  IF replaceRoot /\ first = UndefinedCell
                    THEN [st EXCEPT !.threw = TRUE, !.error = "TypeError",
                                    !.events = Append(@, [event EXCEPT !.threw = TRUE])]
                    ELSE
                    LET foundFile == IF replaceRoot
                                     THEN PathJoinAll(match.useDifferentRootLocation,
                                                      PathBase(first), <<>>)
                                     ELSE first
                        written == SetCells(row, columnsForResults, foundFile)
                        st1 == [st EXCEPT !.rows[i] = written]
                    IN  IF foundFile = UndefinedCell
                        THEN [st1 EXCEPT !.threw = TRUE, !.error = "TypeError",
                                         !.events = Append(@, [event EXCEPT !.after = written,
                                                                            !.threw = TRUE])]
                        ELSE LET m == Message("matched", toMatch, columnToMatch.value, rowIndex,
                                              <<PathBase(foundFile)>>, Len(columnsForResults))
                             IN  [st1 EXCEPT
                                     !.reporter = addSuccessRow(@, <<m>>),
                                     !.events = Append(@, [event EXCEPT !.after = written,
                                                    !.narratives = <<[severity |-> "success",
                                                                      message |-> m]>>])]
    IN  Rest(CHOOSE found \in
                { FoundFiles(IF toMatch = UndefinedCell
                             THEN FindPromise("rejected", "", "TypeError", EmptyResponse, 0)
                             ELSE FindInLocation(fs, toMatch, match.scanLocation, o)) }
                : TRUE)

\* The loop of lines 725-752.  (The state a pass leaves is bound as the one
\* element of a set, so that it is computed once and not at each use.)
RECURSIVE ProcessRows(_, _, _, _, _, _, _)
ProcessRows(fs, st, match, k, columnToMatch, columnsForResults, i) ==
    IF st.threw \/ i > Len(st.rows) THEN st
    ELSE CHOOSE end \in
            { ProcessRows(fs, next, match, k, columnToMatch, columnsForResults, i + 1)
              : next \in {ProcessRow(fs, st, match, k, columnToMatch, columnsForResults, i)} }
            : TRUE

\* AppendResultsHeader that appends whether or not the column is there
AppendResultsHeaderAlways(headers, columnsForResults, columnForResults) ==
    Append(headers, columnForResults)

\* lines 714-715: `columnsForResults < 1` compares an array with a number,
\* which is true for the empty array only; the header is then pushed
AppendResultsHeader(headers, columnsForResults, columnForResults) ==
    IF Len(columnsForResults) = 0 THEN Append(headers, columnForResults) ELSE headers

\* One pass of the loop body of lines 691-752 for rule k.  Each pass that
\* does not throw at once leaves a record in st.rules: the headers and rows
\* it found and left, and the narratives it added itself (those of its rows
\* are in st.events).
ProcessRule(fs, st, match, k) ==
    LET found == findAllHeaders(st.headers, match.columnToMatch)
        columnToMatch == found.results
        columnsForResults == findAllHeaders(st.headers, match.columnForResults).results
        skipped(severity) ==
            [st EXCEPT !.skipped = Append(@, [rule |-> k, severity |-> severity]),
                       !.rules = Append(@, [rule |-> k, kind |-> "skipped",
                                            headersBefore |-> st.headers,
                                            headersAfter |-> st.headers,
                                            rowsBefore |-> st.rows, rowsAfter |-> st.rows,
                                            narratives |-> <<severity>>])]
    IN  IF found.threw
        THEN \* line 691: the TypeError of findAllHeaders ends the call
             [st EXCEPT !.threw = TRUE, !.error = "TypeError"]
        ELSE IF Len(columnToMatch) < 1
        THEN LET m == Message("noColumn", match.columnToMatch, <<>>, 0, <<>>, 0)
             IN  IF match.ifColumnToMatchNotPresent = "success"
                 THEN [skipped("success") EXCEPT !.reporter = addSuccessRow(@, <<m>>)]
                 ELSE IF match.ifColumnToMatchNotPresent = "warning"
                 THEN [skipped("warning") EXCEPT !.reporter = addWarningRow(@, <<m>>)]
                 ELSE [skipped("error") EXCEPT !.reporter = addErrorRow(@, <<m>>)]
        ELSE IF Len(columnToMatch) > 1
        THEN [skipped("error") EXCEPT !.reporter =
                 addErrorRow(@, <<Message("duplicateColumn", match.columnToMatch, <<>>, 0,
                                          <<>>, Len(columnToMatch))>>)]
        ELSE LET st1 == [st EXCEPT !.headers = AppendResultsHeader(@, columnsForResults,
                                                                   match.columnForResults)]
                 cols == IF Len(columnsForResults) = 0
                         THEN findAllHeaders(st1.headers, match.columnForResults).results
                         ELSE columnsForResults
                 done(st2) ==
                     [st2 EXCEPT !.rules = Append(@, [rule |-> k, kind |-> "applied",
                                                      headersBefore |-> st.headers,
                                                      headersAfter |-> st1.headers,
                                                      rowsBefore |-> st.rows,
                                                      rowsAfter |-> st2.rows,
                                                      narratives |-> <<>>])]
             IN  CHOOSE end \in
                     { done(st2) : st2 \in {ProcessRows(fs, [st1 EXCEPT !.applied = Append(@, k)],
                                                        match, k, columnToMatch[1], cols, 1)} }
                     : TRUE

\* The loop of lines 690-753
RECURSIVE ProcessRules(_, _, _, _)
ProcessRules(fs, st, matching, k) ==
    IF st.threw \/ k > Len(matching) THEN st
    ELSE CHOOSE end \in
            { ProcessRules(fs, next, matching, k + 1)
              : next \in {ProcessRule(fs, st, NormalizeRule(matching[k]), k)} }
            : TRUE

\* saveFile of the object a call resolved with has not been called
NoSaveFile ==
    [called |-> FALSE, loc |-> <<>>, outcome |-> "none", settles |-> "", said |-> <<>>,
     path |-> <<>>, records |-> <<>>]

\* What a call leaves: the state of its promise and, for the model's
\* properties, the file system the rules ran on, whether the stream of the
\* CSV file has handed over its records and the text it read, the table in
\* memory, the report, and what was done per rule and per row
MatchState(outcome, error, loaded, table) ==
    [outcome |-> outcome, error |-> error, loaded |-> loaded, fs |-> EmptyFs,
     read |-> FALSE, original |-> <<>>,
     headers |-> table.headers, rows |-> table.rows, rowsStartIndex |-> table.rowsStartIndex,
     reporter |-> NewReport, threw |-> FALSE,
     applied |-> <<>>, skipped |-> <<>>, rules |-> <<>>, events |-> <<>>,
     saveFile |-> NoSaveFile]

NoTable == [headers |-> <<>>, rows |-> <<>>, rowsStartIndex |-> 0]

\* MatchFilesToCsvData(options) up to the await of line 687: the promise is
\* rejected when a check of lines 665-685 or of the constructor of
\* CsvProcessor throws, and pending otherwise
MatchFilesToCsvData(fs, options) ==
    LET err == ValidateCall(fs, options)
        csvFile == NewCsvProcessor(fs, options.csvLocation, JUndef)
    IN  IF err # "" THEN [MatchState("rejected", err, FALSE, NoTable) EXCEPT !.fs = fs]
        ELSE IF csvFile.outcome = "threw"
        THEN [MatchState("rejected", csvFile.error, FALSE, NoTable) EXCEPT !.fs = fs]
        ELSE [MatchState("pending", "", FALSE, NoTable) EXCEPT !.fs = fs]

\* lines 687-764: the function is resumed once the stream of the CSV file
\* has ended, with the processor `csvFile` whose table the "data" handlers
\* built from the text the stream had read, and goes through the rules on
\* the file system as it is then
MatchLoadedCsv(fs, options, csvFile) ==
    CHOOSE end \in
        { IF st.threw THEN [st EXCEPT !.outcome = "rejected", !.fs = fs]
          ELSE [st EXCEPT !.outcome = "returned", !.fs = fs]
          : st \in { ProcessRules(fs, loaded, options.matching, 1)
                     : loaded \in {[MatchState("running", "", TRUE, csvFile)
                                       EXCEPT !.read = TRUE,
                                              !.original = csvFile.original]} } }
        : TRUE

\* options.saveLocation as line 657 sets it
SaveLocation(options) ==
    IF options.saveLocation \in {<<Undefined>>, <<>>} THEN options.csvLocation
    ELSE options.saveLocation

\* saveFile(loc) (lines 759-762) of the object a call resolved with, whose
\* table is `data`: the parameter defaults to options.saveLocation when it
\* is undefined.  What saveTo did up to its await, and the location the text
\* returned names.
saveFile(fs, data, options, loc) ==
    LET loc1 == IF loc = <<Undefined>> THEN SaveLocation(options) ELSE loc
    IN  [said |-> loc1] @@ saveTo(fs, data, options.csvLocation, loc1)

(***************************************************************************)
(* The worlds the calls run in, and the arguments they are given.          *)
(***************************************************************************)
A1pdf   == <<"A", "1", ".", "p", "d", "f">>
A1v2pdf == <<"A", "1", "_", "v", "2", ".", "p", "d", "f">>
A1PDF   == <<"A", "1", ".", "P", "D", "F">>
AB1PDF  == <<"A", "B", "1", ".", "P", "D", "F">>
A1txt   == <<"A", "1", ".", "t", "x", "t">>
Adot1   == <<"A", ".", "1">>
sub     == <<"s", "u", "b">>

\* A chain of n nested directories, each holding one A1.pdf
RECURSIVE Nested(_)
Nested(n) == IF n = 0 THEN <<File(A1pdf)>> ELSE <<File(A1pdf), Dir(sub, Nested(n - 1))>>

TreeSingle == <<File(A1pdf)>>
\* A1.pdf and a symbolic link named A1
TreeLink   == <<Link(A1), File(A1pdf)>>
TreeTwo    == <<File(A1pdf), File(A1v2pdf)>>
TreeDeep   == <<Dir(A1, Nested(MaxDepth + 1)), File(A1PDF), File(A1txt), File(AB1PDF)>>

\* The directory "/" holds the directory of the CSV file, with the CSV file
\* and a text file in it, and the directory that is scanned, with `tree`
World(tree, csv) ==
    [root |-> <<Dir(Tail(CsvDir), <<File(PathBase(CsvPath)), File(PathBase(TxtPath))>>),
                Dir(Tail(ScanRoot), tree)>>,
     data |-> <<[path |-> CsvPath, content |-> csv]>>]

Worlds ==
    { World(TreeSingle, csv) :
        csv \in {CsvOneRow, CsvDupCol, CsvNoRows, CsvSpaced, CsvNumberHeader, CsvQuoted} }
    \cup { World(TreeTwo, csv) : csv \in {CsvOneRow, CsvNoResCol} }
    \cup { World(TreeDeep, CsvTwoRows), World(TreeLink, CsvOneRow) }

\* The text another callback of the process writes into a CSV file
LateCsv == CsvLines(<< <<ID, Ref>>, <<B2, A1>> >>)

\* The file another callback of the process writes while a promise is pending
LateFile == ScanRoot \o <<"/", "A", "1", "_", "l", "a", "t", "e", ".", "p", "d", "f">>

Needles == {A1, A1pdf, Adot1, toLowerCase(A1pdf)}

AllowedExtLists ==
    { <<>>,
      << <<" ">> >>,
      << <<".", "p", "d", "f">> >>,
      << <<"P", " ", "D", "F">>, <<" ">>, <<".", "p", "d", "f">> >> }

\* Calls whose options pass validation, on a haystack that exists
FindScanCalls ==
    [needle : Needles, haystack : {ScanRoot},
     options : [allowedExt : AllowedExtLists,
                partialMatch : {JUndef, JBool(FALSE)},
                caseSensitive : BOOLEAN,
                returnType : {JUndef, JArr(<<"name">>), JArr(<<"full", "nameProper">>)},
                depth : 0..MaxDepth,
                lookFor : {Undefined, "folders", "both"},
                ifHaystackNotFound : {Undefined}]]

\* Calls with partialMatch given as true, or as the strings MatchFilesToCsvData passes
FindPartialCalls ==
    [needle : Needles, haystack : {ScanRoot},
     options : [allowedExt : {<<>>},
                partialMatch : {JBool(TRUE), JStr("full"), JStr("partial")},
                caseSensitive : BOOLEAN,
                returnType : {JArr(<<"name">>), JArr(<<"name", "name">>)},
                depth : {0},
                lookFor : {"files"},
                ifHaystackNotFound : {"returnEmptyResults"}]]

\* Calls with an invalid option, or on a haystack that does not exist
FindOtherCalls ==
    [needle : {A1}, haystack : {ScanRoot, MissingPath},
     options : [allowedExt : {<<>>},
                partialMatch : {JUndef},
                caseSensitive : {FALSE},
                returnType : {JUndef, JArr(<<>>), JStr("name"), JArr(<<"full", "bogus">>)},
                depth : {0},
                lookFor : {Undefined, "bogus"},
                ifHaystackNotFound : {Undefined, "", "returnEmptyResults", "throwError",
                                      "bogus", "constructor", "__defineGetter__"}]]

\* The scanned directory with a separator after it, a directory inside it, a
\* file, and the root
OtherHaystacks == {ScanRoot \o <<"/">>, ScanRoot \o <<"/">> \o A1, CsvPath, <<"/">>}

\* Calls on another haystack than the scanned directory, and calls with a
\* needle that is no string
FindHaystackCalls ==
    [needle : {A1, <<Undefined>>}, haystack : OtherHaystacks \cup {ScanRoot},
     options : [allowedExt : {<<>>},
                partialMatch : {JUndef, JBool(FALSE)},
                caseSensitive : BOOLEAN,
                returnType : {JUndef},
                depth : {0, 1},
                lookFor : {Undefined, "folders"},
                ifHaystackNotFound : {Undefined}]]

No == <<"N", "o">>

BaseRule ==
    [columnToMatch |-> ID, columnForResults |-> <<>>, matchMethod |-> "full",
     resultsAppendMethod |-> "name", scanLocation |-> ScanRoot,
     useDifferentRootLocation |-> <<>>, ifColumnToMatchNotPresent |-> Undefined]

\* Rules that pass validation
ValidRules ==
    [columnToMatch : {ID}, columnForResults : {<<>>, Ref},
     matchMethod : {"full", "partial"}, resultsAppendMethod : {"name", "full"},
     scanLocation : {ScanRoot}, useDifferentRootLocation : {<<>>},
     ifColumnToMatchNotPresent : {Undefined}]
    \cup { [BaseRule EXCEPT !.resultsAppendMethod = "full", !.useDifferentRootLocation = OtherRoot],
           [BaseRule EXCEPT !.resultsAppendMethod = "nameProper", !.matchMethod = Undefined] }
    \cup { [BaseRule EXCEPT !.columnToMatch = No, !.ifColumnToMatchNotPresent = x]
           : x \in {Undefined, "", "warning", "error"} }
    \cup { [BaseRule EXCEPT !.columnToMatch = Ref, !.columnForResults = id] }

\* Rules with one invalid field
InvalidRules ==
    { [BaseRule EXCEPT !.columnToMatch = <<>>],
      [BaseRule EXCEPT !.scanLocation = <<>>],
      [BaseRule EXCEPT !.scanLocation = MissingPath],
      [BaseRule EXCEPT !.scanLocation = TxtPath],
      [BaseRule EXCEPT !.matchMethod = "bogus"],
      [BaseRule EXCEPT !.resultsAppendMethod = Undefined],
      [BaseRule EXCEPT !.resultsAppendMethod = "bogus"],
      [BaseRule EXCEPT !.ifColumnToMatchNotPresent = "bogus"] }

RuleSeqs == UNION { [1..n -> ValidRules \cup InvalidRules] : n \in 0..MaxRules }

\* The calls are made without a saveLocation, or with the scanned directory
\* as one
MatchCalls ==
    [csvLocation : {CsvPath}, saveLocation : {<<Undefined>>}, matching : RuleSeqs]
    \cup [csvLocation : {CsvPath}, saveLocation : {ScanRoot},
          matching : {<<>>, <<BaseRule>>, <<[BaseRule EXCEPT !.columnForResults = Ref]>>}]
    \cup [csvLocation : {<<>>, MissingCsv, TxtPath}, saveLocation : {<<Undefined>>},
          matching : {<<>>, <<BaseRule>>}]

NoMatchCall ==
    [called |-> FALSE, csvLocation |-> <<>>, saveLocation |-> <<Undefined>>, matching |-> <<>>]

\* The arguments of saveFile: none, and the folder of the CSV file
SaveFileArgs == {<<Undefined>>, CsvDir}

NoFindCall ==
    [called |-> FALSE, fs |-> EmptyFs, needle |-> <<>>, haystack |-> <<>>,
     options |-> [allowedExt |-> <<>>, partialMatch |-> JUndef, caseSensitive |-> FALSE,
                  returnType |-> JUndef, depth |-> 0, lookFor |-> Undefined,
                  ifHaystackNotFound |-> Undefined]]

NoFindResult == FindPromise("none", "", "", EmptyResponse, 0)

\* What the stream, saveTo and a second load have not done yet: `original`
\* is for the text the stream read, `save` the state of the promise of
\* saveTo ("written" when the writer has written the file and the promise
\* has yet to settle), `written` the text the writer left in the file,
\* `reload` the state of the promise of the second load, and `reread`
\* whether its stream has handed over its records
NotSaved ==
    [save |-> "none", settles |-> "", savedTo |-> <<>>, records |-> <<>>, original |-> <<>>,
     written |-> <<>>, reload |-> "none", reread |-> FALSE, second |-> NoTable]

NoCsvResult ==
    [called |-> FALSE, location |-> <<>>, firstRowContainsHeaders |-> JUndef,
     outcome |-> "none", error |-> "", read |-> FALSE, data |-> NoTable] @@ NotSaved

\* The locations saveTo is called with: none, the folder of the file, the
\* scanned directory, a folder that is not there, and a folder in it
SaveLocations == {<<>>, CsvDir, ScanRoot, MissingPath, MissingPath \o <<"/", "q">>}

CsvCalls ==
    [location : {CsvPath, TxtPath, MissingCsv, CsvDir, <<>>},
     firstRowContainsHeaders : {JUndef, JBool(TRUE), JBool(FALSE)}]

NoConfigResult ==
    [called |-> FALSE, env |-> EnvUnset, outcome |-> "none", error |-> "", reads |-> <<>>]

\* The messages of one add...Row call: the methods take any number of them
ReportMessages == {<<>>, <<"m", "n">>}

\* The row types of the direct addRow calls: a severity, a type without
\* colour, and a name every object inherits
RowTypes == {"error", "info", "constructor"}

\* No call on the job or on temporary files has been made
NoHostCall == [fn |-> "none"]

\* The calls of the three methods of an OutgoingConnectionManager
ConnCalls ==
    [level : {"success", "warning", "error"}, report : {"none", "exists", "missing"},
     newName : BOOLEAN, fail : HostCalls \cup {"none"}]

\* A UTC instant by its calendar fields
Instant(year, month, date, hours, minutes, seconds, ms) ==
    [year |-> year, month |-> month, date |-> date, hours |-> hours,
     minutes |-> minutes, seconds |-> seconds, ms |-> ms]

\* 2022-10-11T10:35:52.333Z (the instant of the comment of line 193), an
\* instant in January whose fields are all below ten, and the last
\* millisecond of a year
Instants ==
    { Instant(2022, 10, 11, 10, 35, 52, 333),
      Instant(2022, 1, 5, 3, 4, 5, 6),
      Instant(2022, 12, 31, 23, 59, 59, 999) }

NameParts == {<<>>, <<"t", "m", "p">>}

\* Two readings of the clock and of Math.random()
T1 == Tick(Instant(2022, 10, 11, 10, 35, 52, 333), <<0, 4, 2>>)
T2 == Tick(Instant(2022, 10, 11, 10, 35, 52, 334), <<0, 4, 3>>)

\* The clock readings a call gets: time moves on, or the clock has not
\* moved and Math.random() repeats
TickSeqs == {<<T1, T2>>, <<T1, T1>>}

TmpDir      == <<"/", "t">>
MissingDir  == <<"/", "m">>
TmpFile     == TmpDir \o <<"/", "a">> \o TxtExt
TmpFolder   == TmpDir \o <<"/", "x">>
BareName    == <<"a">> \o TxtExt
DeepFile    == MissingDir \o <<"/", "q", "/", "a">> \o TxtExt
CallerFile  == TmpDir \o <<"/", "c", ".", "x", "m", "l">>
RootFile    == <<"/", "a">> \o TxtExt
ThroughFile == CallerFile \o <<"/", "a">> \o TxtExt
DatasetName == <<"d", "s">>

\* A SwitchReport as its constructor leaves it, with the add...Row calls made
\* on it (the severity of each; "addRow" for a direct call of addRow) and the
\* calls sendJobToConnection made on the job
NewSwitchReport ==
    [options |-> NewReport, added |-> <<>>, outcome |-> "none", error |-> "", sent |-> <<>>,
     todo |-> <<>>, newName |-> FALSE, fail |-> "none",
     files |-> mkdirSync(EmptyFs, TmpDir).fs, written |-> <<>>]

\* The clock readings of the call that writes a report file when `n` report
\* files have been written: the clock has moved on since the call before
ReportTicks(n) ==
    [k \in 1..3 |-> Tick(Instant(2022, 10, 11, 10, 35, 52, 333 + 3 * n + k), <<0, 4, 2>>)]

\* Where the report file is to be written: a directory that exists, and no
\* location
ReportLocations == {TmpDir, <<Undefined>>}

\* The calls of sendJobToConnection: with a job or without one, with a
\* location for the report file or none, and with the environment variable
\* unset or naming the configuration file; a new name, and a job on which
\* one call fails, come with a job, a location and the configuration file
SendJobCalls ==
    {c \in [job : BOOLEAN, tmpFileLocation : ReportLocations, env : {EnvUnset, ConfigJson},
            newName : BOOLEAN, fail : HostCalls \cup {"none"}] :
        (c.newName \/ c.fail # "none")
            => (c.job /\ c.tmpFileLocation = TmpDir /\ c.env = ConfigJson)}

\* Where generateHtmlReportAsFile is called with by the caller itself
HtmlLocations == {TmpDir}

\* TmpFile under the name the loop of line 236 gives it at T1
RenamedTmpFile ==
    PathJoinAll(TmpDir, GenerateDateString(T1.d, <<>>, TRUE) \o <<"-">> \o PathBase(TmpFile), <<>>)

\* The file system with one more file
WithFile(fs, p) == writeFileSync(fs, p, <<>>).fs

\* The temporary directory with a file of the caller in it
TmpFs == WithFile(mkdirSync(EmptyFs, TmpDir).fs, CallerFile)

\* The files and directories that exist when a call starts: the last one
\* has a directory where TmpFile would be
TmpFileSystems ==
    { TmpFs,
      WithFile(TmpFs, TmpFile),
      WithFile(WithFile(TmpFs, TmpFile), RenamedTmpFile),
      WithFile(TmpFs, DatasetLocation(TmpDir, T1)),
      mkdirSync(TmpFs, TmpFile).fs }

CreateNewTmpFileCalls ==
    [files : TmpFileSystems, env : {EnvUnset, ConfigJson}, configTmp : {<<Undefined>>, TmpDir},
     location : {TmpFile, TmpFolder, BareName, <<>>, DeepFile, RootFile, ThroughFile},
     contentIsString : BOOLEAN, overwrite : BOOLEAN, ticks : TickSeqs]

CreateDataSetCalls ==
    [files : TmpFileSystems, env : {EnvUnset, ConfigJson}, configTmp : {<<Undefined>>, TmpDir},
     datasetName : {DatasetName, <<>>, <<Undefined>>},
     data : {[type |-> "object", path |-> <<>>], [type |-> "string", path |-> CallerFile]},
     tmp_file_store : {<<Undefined>>, TmpDir, MissingDir},
     datasetModel : {"JSON", "Opaque", "XML"},
     ticks : TickSeqs, hostFails : BOOLEAN]

\* What the job answers to listDatasets and to getDataset
ListAnswers == {"fails", "without", "with"}
GetAnswers  == {"fails", "unreadable", "badjson", "json"}

\* removeTmpFiles is called at most this many times on one handle
MaxReleases == 2

(***************************************************************************)
(* The state machine.  An async function runs to its first await when it   *)
(* is called and hands back a promise; what follows an await runs in a     *)
(* later step, and other callbacks of the process may run in between.      *)
(***************************************************************************)
Init ==
    /\ fsys \in Worlds
    /\ findCall = NoFindCall
    /\ findResult = NoFindResult
    /\ matchCall = NoMatchCall
    /\ matchResult = MatchState("none", "", FALSE, NoTable)
    /\ csvResult = NoCsvResult
    /\ configResult = NoConfigResult
    /\ switchReport = NewSwitchReport
    /\ host = NoHostCall

\* None of the functions keeps anything between two calls (each call builds
\* its response, table and report anew from its arguments and the file
\* system), so a behaviour is one call made in one of the worlds, or the
\* life of one SwitchReport object: rows added, then the report sent.
NoFileCall ==
    /\ ~findCall.called /\ ~matchCall.called
    /\ ~csvResult.called /\ ~configResult.called
    /\ host = NoHostCall

Idle == NoFileCall /\ switchReport = NewSwitchReport /\ host = NoHostCall

\* The host call a function makes before its first await, and those it has
\* yet to make
FirstCall(calls) == IF calls = <<>> THEN <<>> ELSE <<Head(calls)>>
LaterCalls(calls) == IF calls = <<>> THEN <<>> ELSE Tail(calls)

\* A caller calls FindInLocation: the scan is done when the promise is
\* returned, and the promise of a scan is pending
CallFindInLocation ==
    /\ Idle
    /\ \E c \in FindScanCalls \cup FindPartialCalls \cup FindOtherCalls \cup FindHaystackCalls :
        /\ findCall' = [called |-> TRUE, fs |-> fsys, needle |-> c.needle,
                        haystack |-> c.haystack, options |-> c.options]
        /\ findResult' = FindInLocation(fsys, c.needle, c.haystack, c.options)
        /\ UNCHANGED <<host, fsys, matchCall, matchResult, csvResult, configResult, switchReport>>

\* line 514: the function is resumed after its await, and its promise settles
SettleFindInLocation ==
    /\ findCall.called /\ findResult.state = "pending"
    /\ findResult' = Settled(findResult)
    /\ UNCHANGED <<host, fsys, findCall, matchCall, matchResult, csvResult, configResult,
                   switchReport>>

\* A promise of a function that works on the file system is pending
FilePromisePending ==
    \/ findResult.state = "pending"
    \/ matchResult.outcome = "pending"
    \/ matchResult.saveFile.outcome \in {"pending", "written"}
    \/ csvResult.outcome = "pending"
    \/ csvResult.save \in {"pending", "written"}
    \/ csvResult.reload = "pending"

\* The CSV files whose stream has handed its records to the "data" handlers
\* (lines 615-627) and has yet to emit "end" (line 628)
StreamedFiles ==
    (IF matchResult.outcome = "pending" /\ matchResult.read
     THEN {matchCall.csvLocation} ELSE {})
    \cup (IF csvResult.outcome = "pending" /\ csvResult.read
          THEN {csvResult.location} ELSE {})
    \cup (IF csvResult.reload = "pending" /\ csvResult.reread
          THEN {csvResult.savedTo} ELSE {})

\* Another callback of the process runs while a promise is pending: it
\* writes a file into the scanned directory, or another text into a CSV file
\* whose stream has handed over its records and has yet to end
OtherCallback ==
    /\ \/ /\ FilePromisePending
          /\ ~existsSync(fsys, LateFile)
          /\ fsys' = WithFile(fsys, LateFile)
       \/ \E p \in StreamedFiles :
             /\ ReadCsvFile(fsys, p) # LateCsv
             /\ fsys' = writeFileSync(fsys, p, LateCsv).fs
    /\ UNCHANGED <<host, findCall, findResult, matchCall, matchResult, csvResult, configResult,
                   switchReport>>

\* A caller calls MatchFilesToCsvData: the checks are done when the promise
\* is returned
CallMatchFilesToCsvData ==
    /\ Idle
    /\ \E c \in MatchCalls :
        /\ matchCall' = [called |-> TRUE, csvLocation |-> c.csvLocation,
                         saveLocation |-> c.saveLocation, matching |-> c.matching]
        /\ matchResult' = MatchFilesToCsvData(fsys, c)
        /\ UNCHANGED <<host, fsys, findCall, findResult, csvResult, configResult, switchReport>>

\* lines 613-627, in the processor line 687 makes: the stream reads the CSV
\* file and hands its records to the "data" handlers, which build the table
MatchFilesToCsvDataRead ==
    /\ matchCall.called /\ matchResult.outcome = "pending"
    /\ ~matchResult.read
    /\ \E text \in {ReadCsvFile(fsys, matchCall.csvLocation)} :
        \E table \in {StreamData(text, JUndef)} :
            matchResult' = [matchResult EXCEPT !.read = TRUE,
                                              !.original = text,
                                              !.headers = table.headers,
                                              !.rows = table.rows,
                                              !.rowsStartIndex = table.rowsStartIndex]
    /\ UNCHANGED <<host, fsys, findCall, findResult, matchCall, csvResult, configResult,
                   switchReport>>

\* lines 628-630 and 687: the stream of the CSV file emits "end" in a later
\* turn, the function is resumed with the table the handlers built and goes
\* through its rules, and its promise settles
ResumeMatchFilesToCsvData ==
    /\ matchCall.called /\ matchResult.outcome = "pending"
    /\ matchResult.read
    /\ matchResult' = MatchLoadedCsv(fsys, matchCall, matchResult)
    /\ UNCHANGED <<host, fsys, findCall, findResult, matchCall, csvResult, configResult,
                   switchReport>>

\* The caller calls saveFile(loc) of the object the call resolved with
CallSaveFile ==
    /\ matchCall.called /\ matchResult.outcome = "returned"
    /\ ~matchResult.saveFile.called
    /\ \E loc \in SaveFileArgs :
        \E done \in {saveFile(fsys, matchResult, matchCall, loc)} :
            /\ fsys' = done.fs
            /\ matchResult' = [matchResult EXCEPT
                                   !.saveFile = [called |-> TRUE, loc |-> loc,
                                                 outcome |-> done.outcome, settles |-> "",
                                                 said |-> done.said, path |-> done.path,
                                                 records |-> done.records]]
    /\ UNCHANGED <<host, findCall, findResult, matchCall, csvResult, configResult, switchReport>>

\* The writer of saveFile's saveTo writes the file
SaveFileWriteRecords ==
    /\ matchResult.saveFile.outcome = "pending"
    /\ \E done \in {writeRecords(fsys, matchResult.saveFile.path, matchResult.saveFile.records)} :
        /\ fsys' = done.fs
        /\ matchResult' = [matchResult EXCEPT !.saveFile.outcome = "written",
                                              !.saveFile.settles = done.outcome]
    /\ UNCHANGED <<host, findCall, findResult, matchCall, csvResult, configResult, switchReport>>

\* lines 760-761: saveFile is resumed after its await, and its promise settles
SettleSaveFile ==
    /\ matchResult.saveFile.outcome = "written"
    /\ matchResult' = [matchResult EXCEPT !.saveFile.outcome = matchResult.saveFile.settles]
    /\ UNCHANGED <<host, fsys, findCall, findResult, matchCall, csvResult, configResult,
                   switchReport>>

\* A caller calls new CsvProcessor(location, {firstRowContainsHeaders})
CallCsvProcessor ==
    /\ Idle
    /\ \E c \in CsvCalls :
        /\ csvResult' = [called |-> TRUE, location |-> c.location,
                         firstRowContainsHeaders |-> c.firstRowContainsHeaders,
                         read |-> FALSE]
                        @@ NewCsvProcessor(fsys, c.location, c.firstRowContainsHeaders)
                        @@ NotSaved
        /\ UNCHANGED <<host, fsys, findCall, findResult, matchCall, matchResult, configResult,
                       switchReport>>

\* lines 613-627: the stream reads the file and hands its records to the
\* "data" handlers, which build the table; the promise stays pending
CsvProcessorData ==
    /\ csvResult.called /\ csvResult.outcome = "pending"
    /\ ~csvResult.read
    /\ \E text \in {ReadCsvFile(fsys, csvResult.location)} :
        csvResult' = [csvResult EXCEPT
                         !.read = TRUE,
                         !.original = text,
                         !.data = StreamData(text, csvResult.firstRowContainsHeaders)]
    /\ UNCHANGED <<host, fsys, findCall, findResult, matchCall, matchResult, configResult,
                   switchReport>>

\* lines 628-630: the stream emits "end" in a later turn, and the promise
\* resolves with the processor and the table the handlers built
CsvProcessorEnd ==
    /\ csvResult.called /\ csvResult.outcome = "pending"
    /\ csvResult.read
    /\ csvResult' = [csvResult EXCEPT !.outcome = "resolved"]
    /\ UNCHANGED <<host, fsys, findCall, findResult, matchCall, matchResult, configResult,
                   switchReport>>

\* The caller calls saveTo(location) of the processor without having changed
\* the table
CallSaveTo ==
    /\ csvResult.called /\ csvResult.outcome = "resolved"
    /\ csvResult.save = "none"
    /\ \E location \in SaveLocations :
        \E done \in {saveTo(fsys, csvResult.data, csvResult.location, location)} :
            /\ fsys' = done.fs
            /\ csvResult' = [csvResult EXCEPT !.save = done.outcome,
                                              !.savedTo = done.path,
                                              !.records = done.records]
        /\ UNCHANGED <<host, findCall, findResult, matchCall, matchResult, configResult,
                       switchReport>>

\* The writer of saveTo writes the file
WriteRecords ==
    /\ csvResult.save = "pending"
    /\ \E done \in {writeRecords(fsys, csvResult.savedTo, csvResult.records)} :
        /\ fsys' = done.fs
        /\ csvResult' = [csvResult EXCEPT
                            !.save = "written", !.settles = done.outcome,
                            !.written = ReadCsvFile(done.fs, csvResult.savedTo)]
    /\ UNCHANGED <<host, findCall, findResult, matchCall, matchResult, configResult,
                   switchReport>>

\* line 605: saveTo is resumed after its await, and its promise settles
SettleSaveTo ==
    /\ csvResult.save = "written"
    /\ csvResult' = [csvResult EXCEPT !.save = csvResult.settles]
    /\ UNCHANGED <<host, fsys, findCall, findResult, matchCall, matchResult, configResult,
                   switchReport>>

\* The caller loads the saved file with a new CsvProcessor and the same options
CallLoadSaved ==
    /\ csvResult.save = "resolved" /\ csvResult.reload = "none"
    /\ csvResult' = [csvResult EXCEPT
                        !.reload = NewCsvProcessor(fsys, csvResult.savedTo,
                                                   csvResult.firstRowContainsHeaders).outcome]
    /\ UNCHANGED <<host, fsys, findCall, findResult, matchCall, matchResult, configResult,
                   switchReport>>

\* lines 613-627, in the second processor: the stream reads the saved file
\* and hands its records to the "data" handlers, which build the table
LoadSavedData ==
    /\ csvResult.reload = "pending"
    /\ ~csvResult.reread
    /\ csvResult' = [csvResult EXCEPT
                        !.reread = TRUE,
                        !.second = StreamData(ReadCsvFile(fsys, csvResult.savedTo),
                                              csvResult.firstRowContainsHeaders)]
    /\ UNCHANGED <<host, fsys, findCall, findResult, matchCall, matchResult, configResult,
                   switchReport>>

\* lines 628-630, in the second processor: the stream emits "end" in a later
\* turn, and the promise resolves with the table the handlers built
LoadSavedEnd ==
    /\ csvResult.reload = "pending"
    /\ csvResult.reread
    /\ csvResult' = [csvResult EXCEPT !.reload = "resolved"]
    /\ UNCHANGED <<host, fsys, findCall, findResult, matchCall, matchResult, configResult,
                   switchReport>>

\* A caller calls GetGlobalSwitchConfig() with the environment variable
\* unset or set to one of the values
CallGetGlobalSwitchConfig ==
    /\ Idle
    /\ \E loc \in EnvValues :
        /\ configResult' = [called |-> TRUE, env |-> loc] @@ GetGlobalSwitchConfig(loc)
        /\ UNCHANGED <<host, fsys, findCall, findResult, matchCall, matchResult, csvResult,
                       switchReport>>

\* Rows can be added to a report until it is sent
CanAddRow ==
    /\ NoFileCall
    /\ switchReport.outcome = "none"
    /\ Len(switchReport.added) < MaxReportRows

CallAddErrorRow ==
    /\ CanAddRow
    /\ \E messages \in ReportMessages :
        /\ switchReport' = [switchReport EXCEPT !.options = addErrorRow(@, messages),
                                                !.added = Append(@, "error")]
        /\ UNCHANGED <<host, fsys, findCall, findResult, matchCall, matchResult, csvResult,
                       configResult>>

CallAddWarningRow ==
    /\ CanAddRow
    /\ \E messages \in ReportMessages :
        /\ switchReport' = [switchReport EXCEPT !.options = addWarningRow(@, messages),
                                                !.added = Append(@, "warning")]
        /\ UNCHANGED <<host, fsys, findCall, findResult, matchCall, matchResult, csvResult,
                       configResult>>

CallAddSuccessRow ==
    /\ CanAddRow
    /\ \E messages \in ReportMessages :
        /\ switchReport' = [switchReport EXCEPT !.options = addSuccessRow(@, messages),
                                                !.added = Append(@, "success")]
        /\ UNCHANGED <<host, fsys, findCall, findResult, matchCall, matchResult, csvResult,
                       configResult>>

\* A caller calls report.addRow(rowType, message) itself
CallAddRow ==
    /\ CanAddRow
    /\ \E rowType \in RowTypes :
        /\ switchReport' = [switchReport EXCEPT !.options = addRow(@, rowType, <<"m">>),
                                                !.added = Append(@, "addRow")]
        /\ UNCHANGED <<host, fsys, findCall, findResult, matchCall, matchResult, csvResult,
                       configResult>>

\* A caller calls report.generateHtmlReportAsFile(tmpFileLocation)
CallGenerateHtmlReportAsFile ==
    /\ CanAddRow
    /\ \E tmpFileLocation \in HtmlLocations :
        \E file \in {generateHtmlReportAsFile(switchReport.files, EnvUnset, <<Undefined>>,
                                              tmpFileLocation,
                                              ReportTicks(Len(switchReport.written)))} :
            switchReport' = [switchReport EXCEPT
                                !.added = Append(@, "html"),
                                !.files = file.files,
                                !.written = IF file.outcome = "returned"
                                            THEN Append(@, file.value) ELSE @]
    /\ UNCHANGED <<host, fsys, findCall, findResult, matchCall, matchResult, csvResult,
                   configResult>>

\* A caller calls report.sendJobToConnection(job, tmpFileLocation, newName),
\* with a job or without one, with a new name or without one, with the
\* configuration file there or not, and with a job on which one call may
\* fail: the report file is written and the first call on the job is made
\* when the promise is returned
CallSendJobToConnection ==
    /\ NoFileCall
    /\ switchReport.outcome = "none"
    /\ \E c \in SendJobCalls :
        \E done \in {sendJobToConnection(switchReport.options, c.job, switchReport.files,
                                          c.env, TmpDir, c.tmpFileLocation, c.newName, c.fail,
                                          ReportTicks(Len(switchReport.written)))} :
            switchReport' = [switchReport EXCEPT
                                !.outcome = IF done.outcome = "resolved" THEN "pending"
                                            ELSE done.outcome,
                                !.error = done.error,
                                !.newName = c.newName,
                                !.fail = c.fail,
                                !.sent = FirstCall(done.sent),
                                !.todo = LaterCalls(done.sent),
                                !.files = done.file.files,
                                !.written = IF done.file.outcome = "returned"
                                            THEN Append(@, done.file.value) ELSE @]
    /\ UNCHANGED <<host, fsys, findCall, findResult, matchCall, matchResult, csvResult,
                   configResult>>

\* The sender is resumed after an await: it makes its next call on the job,
\* or it ends and the promise of sendJobToConnection settles
ResumeSendJobToConnection ==
    /\ switchReport.outcome = "pending"
    /\ switchReport' = IF switchReport.todo = <<>>
                       THEN [switchReport EXCEPT !.outcome = "resolved"]
                       ELSE [switchReport EXCEPT !.sent = Append(@, Head(switchReport.todo)),
                                                 !.todo = Tail(@)]
    /\ UNCHANGED <<host, fsys, findCall, findResult, matchCall, matchResult, csvResult,
                   configResult>>

\* A caller calls success(report), warning(report) or error(report) of an
\* OutgoingConnectionManager, with a job on which one call may fail: send
\* runs to its first await, and the promise the method returns is pending
CallOutgoingConnectionManager ==
    /\ Idle
    /\ \E c \in ConnCalls :
        \E done \in {send(c.level, c.report, c.newName, c.fail)} :
            host' = [fn |-> "send", level |-> c.level, report |-> c.report,
                     newName |-> c.newName, fail |-> c.fail,
                     outcome |-> "pending", settles |-> done.outcome,
                     calls |-> FirstCall(done.calls), todo |-> LaterCalls(done.calls)]
    /\ UNCHANGED fileVars

\* send is resumed after an await: it makes its next call on the job, or it
\* ends and the promise of the method settles
ResumeSend ==
    /\ host.fn = "send" /\ host.outcome = "pending"
    /\ host' = IF host.todo = <<>> THEN [host EXCEPT !.outcome = host.settles]
               ELSE [host EXCEPT !.calls = Append(@, Head(host.todo)), !.todo = Tail(@)]
    /\ UNCHANGED fileVars

\* A caller calls GenerateNewName(prefix, suffix) at some instant
CallGenerateNewName ==
    /\ Idle
    /\ \E prefix \in NameParts, suffix \in NameParts, d \in Instants,
          fraction \in RandomFractions :
        /\ host' = [fn |-> "GenerateNewName", prefix |-> prefix, suffix |-> suffix,
                    instant |-> d, fraction |-> fraction,
                    name |-> GenerateNewName(prefix, suffix, d, fraction)]
        /\ UNCHANGED fileVars

\* A caller calls CreateNewTmpFile(location, content, overwrite)
CallCreateNewTmpFile ==
    /\ Idle
    /\ \E c \in CreateNewTmpFileCalls :
        /\ host' = [fn |-> "CreateNewTmpFile", call |-> c,
                    result |-> CreateNewTmpFile(c.files, c.env, c.configTmp, c.location,
                                                c.contentIsString, c.overwrite, c.ticks)]
        /\ UNCHANGED fileVars

\* The call reached the await of line 295
AskedJob(result) ==
    \E i \in 1..Len(result.events) : result.events[i].op = "createDataset"

\* A caller calls CreateDataSet(job, datasetName, data, tmp_file_store,
\* datasetModel): the file is written and job.createDataset is called when
\* the promise is returned
CallCreateDataSet ==
    /\ Idle
    /\ \E c \in CreateDataSetCalls :
        \E done \in {CreateDataSet(c.files, c.env, c.configTmp, c.datasetName, c.data,
                                    c.tmp_file_store, c.datasetModel, c.ticks, c.hostFails)} :
            host' = [fn |-> "CreateDataSet", call |-> c,
                     result |-> IF AskedJob(done) THEN [done EXCEPT !.outcome = "pending"]
                                ELSE done,
                     settles |-> done.outcome, releases |-> 0, unlinked |-> <<>>]
    /\ UNCHANGED fileVars

\* line 295: the promise of job.createDataset has settled, and the function
\* returns the handle or throws
ResumeCreateDataSet ==
    /\ host.fn = "CreateDataSet" /\ host.result.outcome = "pending"
    /\ host' = [host EXCEPT !.result.outcome = host.settles]
    /\ UNCHANGED fileVars

\* The caller calls removeTmpFiles() of the handle CreateDataSet returned
CallRemoveTmpFiles ==
    /\ host.fn = "CreateDataSet"
    /\ host.result.outcome = "returned"
    /\ host.releases < MaxReleases
    /\ host' = [host EXCEPT
                   !.result.files = removeTmpFiles(@, host.result.value).files,
                   !.unlinked = @ \o removeTmpFiles(host.result.files, host.result.value).events,
                   !.releases = @ + 1]
    /\ UNCHANGED fileVars

\* A caller calls DataSetExists(job, name): job.listDatasets is called when
\* the promise is returned
CallDataSetExists ==
    /\ Idle
    /\ \E list \in ListAnswers :
        \E done \in {DataSetExists(list)} :
            host' = [fn |-> "DataSetExists", list |-> list,
                     outcome |-> "pending",
                     settles |-> IF done.threw THEN "threw" ELSE "returned",
                     value |-> done.value,
                     calls |-> FirstCall(done.calls), todo |-> LaterCalls(done.calls)]
    /\ UNCHANGED fileVars

\* DataSetExists is resumed after an await: it makes its next call on the
\* job, or it returns `value`
ResumeDataSetExists ==
    /\ host.fn = "DataSetExists" /\ host.outcome = "pending"
    /\ host' = IF host.todo = <<>> THEN [host EXCEPT !.outcome = host.settles]
               ELSE [host EXCEPT !.calls = Append(@, Head(host.todo)), !.todo = Tail(@)]
    /\ UNCHANGED fileVars

\* A caller calls GetDataSet(job, name): job.listDatasets is called when the
\* promise is returned
CallGetDataSet ==
    /\ Idle
    /\ \E list \in ListAnswers, get \in GetAnswers :
        \E done \in {GetDataSet(list, get)} :
            host' = [fn |-> "GetDataSet", list |-> list, get |-> get,
                     outcome |-> "pending", settles |-> done.outcome,
                     thrown |-> done.thrown,
                     calls |-> FirstCall(done.calls), todo |-> LaterCalls(done.calls)]
    /\ UNCHANGED fileVars

\* GetDataSet is resumed after an await: it makes its next call on the job,
\* or it returns or throws
ResumeGetDataSet ==
    /\ host.fn = "GetDataSet" /\ host.outcome = "pending"
    /\ host' = IF host.todo = <<>> THEN [host EXCEPT !.outcome = host.settles]
               ELSE [host EXCEPT !.calls = Append(@, Head(host.todo)), !.todo = Tail(@)]
    /\ UNCHANGED fileVars

Next ==
    \/ CallFindInLocation
    \/ SettleFindInLocation
    \/ OtherCallback
    \/ CallMatchFilesToCsvData
    \/ MatchFilesToCsvDataRead
    \/ ResumeMatchFilesToCsvData
    \/ CallSaveFile
    \/ SaveFileWriteRecords
    \/ SettleSaveFile
    \/ CallCsvProcessor
    \/ CsvProcessorData
    \/ CsvProcessorEnd
    \/ CallSaveTo
    \/ WriteRecords
    \/ SettleSaveTo
    \/ CallLoadSaved
    \/ LoadSavedData
    \/ LoadSavedEnd
    \/ CallGetGlobalSwitchConfig
    \/ CallAddErrorRow
    \/ CallAddWarningRow
    \/ CallAddSuccessRow
    \/ CallAddRow
    \/ CallGenerateHtmlReportAsFile
    \/ CallSendJobToConnection
    \/ ResumeSendJobToConnection
    \/ CallOutgoingConnectionManager
    \/ ResumeSend
    \/ CallGenerateNewName
    \/ CallCreateNewTmpFile
    \/ CallCreateDataSet
    \/ ResumeCreateDataSet
    \/ CallRemoveTmpFiles
    \/ CallDataSetExists
    \/ ResumeDataSetExists
    \/ CallGetDataSet
    \/ ResumeGetDataSet

Spec == Init /\ [][Next]_vars

(***************************************************************************)
(* Properties of FindInLocation.                                           *)
(***************************************************************************)
\* The last call was a scan that ran to its end: its promise is fulfilled
\* with the response, or is pending and will be
Scanned ==
    /\ findCall.called
    /\ Settled(findResult).state = "fulfilled" /\ findResult.value = "response"
    /\ findResult.exists = 2

\* The haystack of the last call as the scan names it in front of its
\* entries, and what it held when the call was made
HaystackRoot == StripTrailingSep(PathNormalize(findCall.haystack))
HaystackEntries == readdirSync(findCall.fs, findCall.haystack).entries

\* Number of directories between the haystack root and the entry or
\* directory with this full path: 0 for a direct entry of the root
LevelBelowRoot(p) ==
    Cardinality({i \in (Len(HaystackRoot) + 1)..Len(StripTrailingSep(p)) : p[i] = "/"}) - 1

\* C1: FindInLocation with depth d reads only the root and directories at
\* most d levels below it, and tests or returns only entries of those
\* directories; with depth 0 these are the root's direct entries.
C1_DepthBound ==
    Scanned =>
        LET d == findCall.options.depth
            r == findResult.response
        IN  /\ \A i \in 1..Len(r.tested) : LevelBelowRoot(r.tested[i].path) <= d
            /\ \A i \in 1..Len(r.results.full) : LevelBelowRoot(r.results.full[i]) <= d
            /\ \A i \in 1..Len(r.reads) : LevelBelowRoot(r.reads[i]) + 1 <= d
            /\ d = 0 => r.reads = <<findCall.haystack>>

\* A scan with depth 1 of a tree that goes deeper: an entry one level down
\* was tested and returned, and entries exist two levels down
C1_Witness ==
    /\ Scanned
    /\ findCall.options.depth = 1
    /\ \E i \in 1..Len(findResult.response.tested) :
          /\ LevelBelowRoot(findResult.response.tested[i].path) = 1
          /\ findResult.response.tested[i].returned
    /\ \E p \in AllPaths(HaystackEntries, HaystackRoot) : LevelBelowRoot(p) = 2

\* The needle and an entry's name as the comparison sees them
C2_Needle == IF findCall.options.caseSensitive THEN findCall.needle
             ELSE toLowerCase(findCall.needle)
C2_Hay(e) == IF findCall.options.caseSensitive THEN PathBase(e.path)
             ELSE toLowerCase(PathBase(e.path))

\* s contains t as a literal substring
Contains(s, t) ==
    \E i \in 1..(Len(s) + 1) :
        /\ i + Len(t) - 1 <= Len(s)
        /\ \A k \in 1..Len(t) : s[i + k - 1] = t[k]

\* The extensions a list of allowedExt stands for: every non-blank entry,
\* lower-cased, without its spaces, with a dot in front
C3_Allowed(list) ==
    { LET e == toLowerCase(StripSpaces(list[i]))
      IN  IF Head(e) = "." THEN e ELSE <<".">> \o e
      : i \in {j \in 1..Len(list) : StripSpaces(list[j]) # <<>>} }

C3_ExtOk(e) ==
    LET allowed == C3_Allowed(findCall.options.allowedExt)
    IN  allowed = {} \/ toLowerCase(PathExt(e.path)) \in allowed

C2_KindOk(e) ==
    LET lookFor == FindOptions(findCall.options).lookFor
    IN  CASE lookFor = "files"   -> ~e.isDir
          [] lookFor = "folders" -> ~e.isFile
          [] lookFor = "both"    -> TRUE

\* C2: with partialMatch false an entry is returned only if its name equals
\* the needle; with partialMatch true (the default) an entry that passes the
\* extension and kind filters is returned exactly when its name contains the
\* needle as a literal substring; both are lower-cased first unless
\* caseSensitive.
C2_NameTest ==
    (Scanned /\ IsString(findCall.needle)
             /\ findCall.options.partialMatch.t \in {"undef", "bool"}) =>
        \A i \in 1..Len(findResult.response.tested) :
            LET e == findResult.response.tested[i]
            IN  IF Truthy(FindOptions(findCall.options).partialMatch)
                THEN e.returned <=> /\ Contains(C2_Hay(e), C2_Needle)
                                    /\ C3_ExtOk(e)
                                    /\ C2_KindOk(e)
                ELSE e.returned => C2_Hay(e) = C2_Needle

\* C3: with no (non-blank) allowedExt the extension excludes no entry: every
\* tested entry that passes the name and kind tests is returned; with a
\* non-empty list the entries returned are those of them whose own
\* extension, lower-cased, is one of the normalized list entries.
C3_ExtensionFilter ==
    Scanned =>
        LET r == findResult.response
            o == FindOptions(findCall.options)
            allowed == C3_Allowed(findCall.options.allowedExt)
        IN  /\ \A i \in 1..Len(r.tested) :
                LET e == r.tested[i]
                IN  e.returned <=> /\ NameTest(o.partialMatch, C2_Hay(e), C2_Needle)
                                   /\ C2_KindOk(e)
                                   /\ C3_ExtOk(e)
            /\ \A i \in 1..Len(r.results.full) :
                allowed = {} \/ toLowerCase(PathExt(r.results.full[i])) \in allowed
            /\ \A i \in 1..Len(r.results.name) :
                allowed = {} \/ toLowerCase(PathExt(r.results.name[i])) \in allowed

\* A list that needs every normalization step let an upper-case .PDF through
\* and kept out an entry of another extension that passed the other tests
C3_Witness ==
    /\ Scanned
    /\ Len(findCall.options.allowedExt) = 3
    /\ \E i \in 1..Len(findResult.response.tested) :
          /\ findResult.response.tested[i].returned
          /\ PathExt(findResult.response.tested[i].path) = <<".", "P", "D", "F">>
    /\ \E i \in 1..Len(findResult.response.tested) :
          /\ ~findResult.response.tested[i].returned
          /\ PathExt(findResult.response.tested[i].path) = <<".", "t", "x", "t">>
          /\ NameTest(FindOptions(findCall.options).partialMatch,
                      C2_Hay(findResult.response.tested[i]), C2_Needle)
          /\ C2_KindOk(findResult.response.tested[i])

(***************************************************************************)
(* Properties of MatchFilesToCsvData.                                      *)
(***************************************************************************)
\* The last call was a MatchFilesToCsvData call that got past validation
Matched == matchCall.called /\ matchResult.loaded

\* The file system the call ran in: the one its checks were made on, and
\* after that the one its rules were gone through on
MatchFs == matchResult.fs

\* The text the stream read from the CSV file, and the table as CsvProcessor
\* loaded it
MatchCsv == matchResult.original
LoadedTable == CsvProcessor(MatchCsv, TRUE)

\* The rule at position k as the call reads it
RuleAt(k) == NormalizeRule(matchCall.matching[k])

\* The positions of the rules whose row loop was entered
AppliedRules == {matchResult.applied[j] : j \in 1..Len(matchResult.applied)}

\* The cell of loaded row i under the rule's columnToMatch
NeedleOf(k, i) ==
    LET col == findAllHeaders(LoadedTable.headers, RuleAt(k).columnToMatch).results
    IN  GetCell(LoadedTable.rows[i], col[1].index)

\* The files a lookup for a rule is meant to find: the .pdf files of
\* scanLocation whose name, case ignored, equals the needle (matchMethod
\* "full") or contains it (matchMethod "partial")
MeantMatches(needle, match) ==
    LET dir == readdirSync(MatchFs, match.scanLocation).entries
    IN  { dir[j].name : j \in { n \in 1..Len(dir) :
            /\ isFile(dir[n])
            /\ toLowerCase(PathExt(dir[n].name)) = PdfExt
            /\ IF match.matchMethod = "full"
               THEN toLowerCase(dir[n].name) = toLowerCase(needle)
               ELSE Contains(toLowerCase(dir[n].name), toLowerCase(needle)) } }

\* The value a rule is meant to write for a matched file
MeantValue(name, match) ==
    CASE match.resultsAppendMethod = "name" -> name
      [] match.resultsAppendMethod = "nameProper" -> PathName(name)
      [] match.resultsAppendMethod = "full" ->
            IF match.useDifferentRootLocation # <<>>
            THEN PathJoin(match.useDifferentRootLocation, name)
            ELSE PathJoin(match.scanLocation, name)

\* The events of rule k on row i
EventsOf(k, i) ==
    { matchResult.events[j] : j \in { n \in 1..Len(matchResult.events) :
        matchResult.events[n].rule = k /\ matchResult.events[n].row = i } }

\* The results cells of an event's row are as they were before the pass
CellsKept(e) ==
    \A j \in 1..Len(e.columns) :
        GetCell(e.after, e.columns[j].index) = GetCell(e.before, e.columns[j].index)

\* C4: for every applied rule and every row whose needle matches exactly one
\* file, the resolved value is written under every results column, exactly
\* one success narrative is added for the row, and no warning or error.
C4_ExactlyOneMatch ==
    Matched =>
        \A k \in AppliedRules : \A i \in 1..Len(LoadedTable.rows) :
            LET files == MeantMatches(NeedleOf(k, i), RuleAt(k))
            IN  Cardinality(files) = 1 =>
                    \E e \in EventsOf(k, i) :
                        /\ Len(e.narratives) = 1
                        /\ e.narratives[1].severity = "success"
                        /\ \A j \in 1..Len(e.columns) :
                              GetCell(e.after, e.columns[j].index)
                                  = MeantValue(CHOOSE f \in files : TRUE, RuleAt(k))

\* C5: for every applied rule and every row whose needle matches no file,
\* the row's results cells keep their value and exactly one warning (and no
\* success) is added for the row.
C5_ZeroMatches ==
    Matched =>
        \A k \in AppliedRules : \A i \in 1..Len(LoadedTable.rows) :
            MeantMatches(NeedleOf(k, i), RuleAt(k)) = {} =>
                \E e \in EventsOf(k, i) :
                    /\ Len(e.narratives) = 1
                    /\ e.narratives[1].severity = "warning"
                    /\ CellsKept(e)

\* C6: for every applied rule and every row whose needle matches more than
\* one file, the row's results cells are left unchanged and exactly one
\* warning is added whose text names every matched candidate.
C6_AmbiguousMatch ==
    Matched =>
        \A k \in AppliedRules : \A i \in 1..Len(LoadedTable.rows) :
            LET files == MeantMatches(NeedleOf(k, i), RuleAt(k))
            IN  Cardinality(files) > 1 =>
                    \E e \in EventsOf(k, i) :
                        /\ Len(e.narratives) = 1
                        /\ e.narratives[1].severity = "warning"
                        /\ CellsKept(e)
                        /\ \A f \in files :
                              \E j \in 1..Len(e.narratives[1].message.files) :
                                  e.narratives[1].message.files[j] = f

\* The call of the two scenarios, once its promise has settled: the CSV with
\* headers [ID, FileMatchResults] and the row [A1, ""], one rule on column ID
\* with resultsAppendMethod "name"
ScenarioCall(tree, matchMethod) ==
    /\ matchCall.called /\ matchResult.outcome # "pending"
    /\ MatchFs = World(tree, CsvOneRow)
    /\ matchCall.csvLocation = CsvPath
    /\ matchCall.matching = <<[BaseRule EXCEPT !.matchMethod = matchMethod]>>

\* C7: with only A1.pdf in scanLocation and matchMethod "full" the call
\* completes, the row is [A1, A1.pdf] and the report counts 1 success,
\* 0 warnings and 0 errors.
C7_ScenarioSingleMatch ==
    ScenarioCall(TreeSingle, "full") =>
        /\ matchResult.outcome = "returned"
        /\ matchResult.rows = << <<A1, A1pdf>> >>
        /\ matchResult.reporter.RowCounts = [Error |-> 0, Warning |-> 0, Success |-> 1]

\* C8: with A1.pdf and A1_v2.pdf in scanLocation and matchMethod "partial"
\* the call completes, the row is unchanged and the report holds exactly one
\* warning, which names both files.
C8_ScenarioAmbiguousMatch ==
    ScenarioCall(TreeTwo, "partial") =>
        /\ matchResult.outcome = "returned"
        /\ matchResult.rows = << <<A1, Empty>> >>
        /\ matchResult.reporter.RowCounts.Warning = 1
        /\ Len(matchResult.reporter.MessageByType.Warning) = 1
        /\ LET files == matchResult.reporter.MessageByType.Warning[1].files
           IN  /\ \E j \in 1..Len(files) : files[j] = A1pdf
               /\ \E j \in 1..Len(files) : files[j] = A1v2pdf

\* C9: every lookup of a rule is made with partialMatch false when
\* matchMethod is "full" and true when it is "partial", with .pdf as the only
\* allowed extension and with resultsAppendMethod as the single return kind,
\* and FindInLocation accepts these options.
C9_MatcherMode ==
    Matched =>
        \A j \in 1..Len(matchResult.events) :
            LET e == matchResult.events[j]
                match == RuleAt(e.rule)
            IN  /\ match.matchMethod = "full" => ~Truthy(e.lookup.options.partialMatch)
                /\ match.matchMethod = "partial" => Truthy(e.lookup.options.partialMatch)
                /\ e.lookup.options.allowedExt = <<PdfExt>>
                /\ e.lookup.options.returnType = JArr(<<match.resultsAppendMethod>>)
                /\ Settled(e.lookup).state = "fulfilled"

\* A rule field other than ifColumnToMatchNotPresent that is invalid: an
\* empty columnToMatch, a scanLocation that is missing, does not exist or
\* has a file extension, a matchMethod that is given and is not allowed, or
\* a resultsAppendMethod that is not allowed
C10_InvalidField(match) ==
    \/ match.columnToMatch = <<>>
    \/ match.scanLocation = <<>>
    \/ ~existsSync(MatchFs, match.scanLocation)
    \/ PathExt(match.scanLocation) # <<>>
    \/ (match.matchMethod # Undefined /\ match.matchMethod \notin {"full", "partial"})
    \/ match.resultsAppendMethod \notin {"full", "name", "nameProper"}

\* A rule with an invalid field, when every ifColumnToMatchNotPresent that
\* is given and is outside the allowed set counts as one
C10_InvalidAsStated(match) ==
    \/ C10_InvalidField(match)
    \/ (match.ifColumnToMatchNotPresent # Undefined
            /\ match.ifColumnToMatchNotPresent \notin {"success", "warning", "error"})

\* A rule with an invalid field, when an ifColumnToMatchNotPresent that is
\* not given or is empty stands for "success" (line 675)
C10_InvalidRule(match) ==
    \/ C10_InvalidField(match)
    \/ match.ifColumnToMatchNotPresent
            \notin {Undefined, "", "success", "warning", "error"}

\* The CSV path is missing or is not a .csv file
C10_InvalidPath ==
    \/ ~existsSync(MatchFs, matchCall.csvLocation)
    \/ PathExt(matchCall.csvLocation) # CsvExt

\* The call was rejected before the CSV was loaded: no rule was applied or
\* skipped, no row was processed, and no cell, header or report row exists
C10_Rejected ==
    /\ matchResult.outcome = "rejected"
    /\ ~matchResult.loaded
    /\ matchResult.headers = <<>> /\ matchResult.rows = <<>>
    /\ matchResult.reporter = NewReport
    /\ matchResult.applied = <<>> /\ matchResult.skipped = <<>>
    /\ matchResult.events = <<>>

\* C10 as stated: when the CSV path is missing or not a .csv file, or any
\* rule of the sequence has a field outside its allowed set, the empty text
\* as ifColumnToMatchNotPresent among them, the call is rejected before the
\* CSV is loaded.
C10_FailFastAsStated ==
    (/\ matchCall.called
     /\ \/ C10_InvalidPath
        \/ \E k \in 1..Len(matchCall.matching) : C10_InvalidAsStated(matchCall.matching[k]))
        => C10_Rejected

\* C10: when the CSV path is missing or not a .csv file, or any rule of the
\* sequence has an invalid field, the call is rejected before the CSV is
\* loaded: no rule is applied or skipped, no row is processed, and no cell,
\* header or report row exists or changes.  An ifColumnToMatchNotPresent
\* that is empty is not an invalid field: it stands for "success".
C10_FailFast ==
    (/\ matchCall.called
     /\ \/ C10_InvalidPath
        \/ \E k \in 1..Len(matchCall.matching) : C10_InvalidRule(matchCall.matching[k]))
        => C10_Rejected

\* A call rejected for its second rule, whose ifColumnToMatchNotPresent is
\* not allowed, although its first rule is valid and its column is in a CSV
\* file that has rows
C10_Witness ==
    /\ matchCall.called
    /\ Len(matchCall.matching) = 2
    /\ ~C10_InvalidRule(matchCall.matching[1])
    /\ ~C10_InvalidField(matchCall.matching[2])
    /\ C10_InvalidRule(matchCall.matching[2])
    /\ LET onDisk == CsvProcessor(ReadCsvFile(MatchFs, matchCall.csvLocation), TRUE)
       IN  /\ Len(findAllHeaders(onDisk.headers,
                                  matchCall.matching[1].columnToMatch).results) = 1
           /\ onDisk.rows # <<>>
    /\ matchResult.outcome = "rejected"
    /\ ~matchResult.loaded
    /\ ~matchResult.read

\* C11: once validation has passed the call returns the report and saveFile
\* (it neither throws nor rejects), and every row of every applied rule was
\* processed and ended in exactly one narrative, a success or a warning.
C11_NeverAborts ==
    Matched =>
        /\ matchResult.outcome = "returned"
        /\ \A k \in AppliedRules : \A i \in 1..Len(LoadedTable.rows) :
              \E e \in EventsOf(k, i) :
                  /\ Len(e.narratives) = 1
                  /\ e.narratives[1].severity \in {"success", "warning"}

(***************************************************************************)
(* FindInLocation: validation, missing haystack, result accounting.        *)
(***************************************************************************)
\* The options of the last call hold a returnType that is given and is not
\* an array of allowed kinds, a lookFor outside files/folders/both, or an
\* ifHaystackNotFound outside returnEmptyResults/throwError
C18_InvalidReturnType ==
    LET rt == findCall.options.returnType
    IN  \/ rt.t = "str" /\ rt.k # ""
        \/ rt.t = "arr" /\ \E i \in 1..Len(rt.a) : rt.a[i] \notin {"full", "name", "nameProper"}
C18_InvalidLookFor ==
    findCall.options.lookFor \notin {Undefined, "files", "folders", "both"}
C18_InvalidIfHaystackNotFound ==
    findCall.options.ifHaystackNotFound
        \notin {Undefined, "", "returnEmptyResults", "throwError"}

\* C18: a call with an invalid returnType, lookFor or ifHaystackNotFound is
\* rejected before any file-system access: fs.existsSync was not called and
\* no directory was read.
C18_ValidationBeforeIO ==
    (findCall.called /\ (C18_InvalidReturnType \/ C18_InvalidLookFor
                            \/ C18_InvalidIfHaystackNotFound)) =>
        /\ findResult.state = "rejected"
        /\ findResult.exists = 0
        /\ findResult.response.reads = <<>>

\* C19: on a haystack that does not exist a call with throwError fails, a
\* call with returnEmptyResults (or no ifHaystackNotFound) and otherwise
\* valid options returns the response with no result list and all counts 0,
\* and no call returns undefined or reads a directory.
C19_MissingHaystack ==
    (findCall.called /\ IsString(findCall.needle)
                     /\ ~existsSync(findCall.fs, findCall.haystack)) =>
        /\ findCall.options.ifHaystackNotFound = "throwError" =>
              findResult.state = "rejected"
        /\ (/\ findCall.options.ifHaystackNotFound \in {Undefined, "", "returnEmptyResults"}
            /\ ~C18_InvalidReturnType /\ ~C18_InvalidLookFor) =>
              /\ findResult.state = "fulfilled" /\ findResult.value = "response"
              /\ ResultKeys(findResult.response) = {}
              /\ findResult.response.stats =
                     [foldersScanned |-> 0, entitiesTested |-> 0, resultsFound |-> 0]
        /\ findResult.value # "undefined"
        /\ findResult.response.reads = <<>>

\* The return kinds the last call asked for, and how often each is listed
C20_Requested == FindOptions(findCall.options).returnType.a
C20_Times(rt) == Cardinality({i \in 1..Len(C20_Requested) : C20_Requested[i] = rt})

\* The value of one return kind for the entry with this full path
C20_Value(rt, p) ==
    CASE rt = "full"       -> p
      [] rt = "name"       -> PathBase(p)
      [] rt = "nameProper" -> PathName(p)

\* The tested entries that pass the name, extension and kind tests
C20_Passing ==
    {i \in 1..Len(findResult.response.tested) :
        LET e == findResult.response.tested[i]
        IN  /\ NameTest(FindOptions(findCall.options).partialMatch, C2_Hay(e), C2_Needle)
            /\ C3_ExtOk(e)
            /\ C2_KindOk(e)}

\* C20 as stated: resultsFound is the number of entries that passed the
\* three tests, and the list of every requested return kind holds exactly
\* resultsFound values, the k-th being the value of the k-th matched entry.
C20_AccountingAsStated ==
    Scanned =>
        LET r == findResult.response
        IN  /\ r.stats.resultsFound = Cardinality(C20_Passing)
            /\ r.stats.resultsFound = Len(r.pushed)
            /\ \A i \in 1..Len(C20_Requested) :
                  LET rt == C20_Requested[i]
                  IN  /\ Len(r.results[rt]) = r.stats.resultsFound
                      /\ \A k \in 1..Len(r.results[rt]) :
                            r.results[rt][k] = C20_Value(rt, r.pushed[k])

\* C20: resultsFound is the number of entries that passed the three tests,
\* counted once per entry; a return kind listed n times in returnType gets n
\* values per matched entry, in the order the entries matched, so a kind
\* listed once holds exactly resultsFound values, the k-th being the value of
\* the k-th matched entry; a kind that was not requested gets no list.
C20_ResultAccounting ==
    Scanned =>
        LET r == findResult.response
        IN  /\ r.stats.resultsFound = Cardinality(C20_Passing)
            /\ r.stats.resultsFound = Len(r.pushed)
            /\ \A rt \in allowedReturnTypes :
                  LET n == C20_Times(rt)
                  IN  /\ Len(r.results[rt]) = n * r.stats.resultsFound
                      /\ \A k \in 1..Len(r.pushed) : \A j \in 1..n :
                            r.results[rt][(k - 1) * n + j] = C20_Value(rt, r.pushed[k])

\* Two return kinds were requested and two entries matched, one of them in a
\* sub-directory: it was pushed before the directory entries after it
C20_Witness ==
    /\ Scanned
    /\ Len(C20_Requested) = 2 /\ C20_Requested[1] # C20_Requested[2]
    /\ findResult.response.stats.resultsFound >= 2
    /\ \E k \in 1..Len(findResult.response.pushed) :
          LevelBelowRoot(findResult.response.pushed[k]) = 1

(***************************************************************************)
(* MatchFilesToCsvData: columns, headers, table shape, row numbers.        *)
(***************************************************************************)
\* The record rule k left in the rule loop; none when the loop never got to it
RuleEventsOf(k) ==
    { matchResult.rules[j] : j \in { n \in 1..Len(matchResult.rules) :
                                        matchResult.rules[n].rule = k } }

\* The headers the rule at position k is looked up in: those the table has
\* when the loop gets to the rule, or had when the loop stopped before it
HeadersAt(k) ==
    IF RuleEventsOf(k) = {} THEN matchResult.headers
    ELSE (CHOOSE re \in RuleEventsOf(k) : TRUE).headersBefore

\* C12: a rule whose columnToMatch equals, case ignored, no header adds
\* exactly one narrative of the severity of ifColumnToMatchNotPresent
\* (success by default), one that equals several headers adds exactly one
\* error narrative; either way the rule is skipped (no header appended, no
\* cell changed, no lookup made) and the rules after it are still gone
\* through.
C12_ColumnLookup ==
    Matched =>
        \A k \in 1..Len(matchCall.matching) :
            LET hits == findAllHeaders(HeadersAt(k), RuleAt(k).columnToMatch).results
            IN  Len(hits) # 1 =>
                    /\ \E re \in RuleEventsOf(k) :
                          /\ re.kind = "skipped"
                          /\ re.narratives =
                                <<IF Len(hits) = 0 THEN RuleAt(k).ifColumnToMatchNotPresent
                                  ELSE "error">>
                          /\ re.headersAfter = re.headersBefore
                          /\ re.rowsAfter = re.rowsBefore
                    /\ \A i \in 1..Len(LoadedTable.rows) : EventsOf(k, i) = {}
                    /\ \A k2 \in (k + 1)..Len(matchCall.matching) : RuleEventsOf(k2) # {}

\* C13: an applied rule whose columnForResults equals, case ignored, no
\* header has it appended as one new last header before its first row is
\* processed (every row of the rule sees the new header); when one or more
\* headers carry the name the headers are left as they are.
C13_HeaderAppend ==
    Matched =>
        \A j \in 1..Len(matchResult.rules) :
            LET re == matchResult.rules[j]
                name == RuleAt(re.rule).columnForResults
                hits == {n \in 1..Len(re.headersBefore) :
                            toLowerCase(re.headersBefore[n]) = toLowerCase(name)}
            IN  re.kind = "applied" =>
                    /\ hits = {} =>
                          /\ re.headersAfter = re.headersBefore \o <<name>>
                          /\ \A i \in 1..Len(LoadedTable.rows) : \A e \in EventsOf(re.rule, i) :
                                /\ e.headers = re.headersAfter
                                /\ \A c \in 1..Len(e.columns) :
                                      e.columns[c].index = Len(re.headersAfter)
                    /\ hits # {} => re.headersAfter = re.headersBefore

\* One call applied a rule that appended its results column and processed a
\* row, and another call applied a rule whose results column was there,
\* under a name of another case
C13_Witness ==
    /\ Matched
    /\ \E j \in 1..Len(matchResult.rules) :
          LET re == matchResult.rules[j]
          IN  /\ re.kind = "applied"
              /\ \/ /\ Len(re.headersAfter) = Len(re.headersBefore) + 1
                    /\ EventsOf(re.rule, 1) # {}
                    /\ RuleAt(re.rule).columnForResults = Ref
                 \/ /\ re.headersAfter = re.headersBefore
                    /\ RuleAt(re.rule).columnForResults = id
                    /\ EventsOf(re.rule, 1) # {}

\* C14: after the rules were gone through every row has as many cells as
\* there are headers.
C14_TableShape ==
    Matched =>
        \A i \in 1..Len(matchResult.rows) :
            Len(matchResult.rows[i]) = Len(matchResult.headers)

\* The line of the text of a CSV file on which its record k starts
C15_LineOfRecord(text, k) == LineAt(text, CsvReadableStream(text)[k].at)

\* C15: CsvProcessor sets rowsStartIndex to the line number of the first
\* data row (2 when the first line is the header, 1 when
\* firstRowContainsHeaders is false), the row at 0-based offset i is on line
\* rowsStartIndex + i of the file, and MatchFilesToCsvData computes that
\* number for every row it processes and reports it in every narrative about
\* the row.
C15_RowNumbering ==
    /\ (csvResult.outcome = "resolved" /\ csvResult.data.rows # <<>>) =>
          LET d == csvResult.data
              h == IF csvResult.firstRowContainsHeaders # JBool(FALSE) THEN 1 ELSE 0
          IN  /\ d.rowsStartIndex = h + 1
              /\ \A i \in 0..(Len(d.rows) - 1) :
                    C15_LineOfRecord(csvResult.original, h + 1 + i) = d.rowsStartIndex + i
    /\ Matched =>
          \A j \in 1..Len(matchResult.events) :
              LET e == matchResult.events[j]
              IN  /\ e.rowIndex = matchResult.rowsStartIndex + (e.row - 1)
                  /\ C15_LineOfRecord(MatchCsv, 1 + e.row) = e.rowIndex
                  /\ \A n \in 1..Len(e.narratives) : e.narratives[n].message.row = e.rowIndex

(***************************************************************************)
(* Properties of SwitchReport and GetGlobalSwitchConfig.                   *)
(***************************************************************************)
\* The connection levels named by the calls made on the job and on the
\* report's child job (sendToLog and sendToData; job.log names no connection)
C16_Levels ==
    {switchReport.sent[i].level : i \in {n \in 1..Len(switchReport.sent) :
                                            switchReport.sent[n].op \in {"sendToLog",
                                                                         "sendToData"}}}

\* The channel of the highest severity among the rows added
C16_Channel ==
    LET added == {switchReport.added[i] : i \in 1..Len(switchReport.added)}
    IN  IF "error" \in added THEN "error"
        ELSE IF "warning" \in added THEN "warning"
        ELSE "success"

\* How many times the job went out through a connection: the calls of
\* job.sendToData that resolved
C16_TimesSent ==
    Cardinality({i \in 1..Len(switchReport.sent) :
                    switchReport.sent[i].op = "sendToData" /\ switchReport.sent[i].ok})

\* Whether a call on the job rejected
C16_HostFailed == \E i \in 1..Len(switchReport.sent) : ~switchReport.sent[i].ok

\* C16 as stated: after any sequence of addErrorRow, addWarningRow and
\* addSuccessRow calls sendJobToConnection sends through exactly one channel:
\* error if an error row was added, otherwise warning if a warning row was
\* added, otherwise success.
C16_ExactlyOneChannel ==
    switchReport.outcome = "resolved" =>
        /\ C16_Levels = {C16_Channel}
        /\ C16_TimesSent = 1

\* C16: the channel sendJobToConnection uses is error if an error row was
\* added, otherwise warning if a warning row was added, otherwise success:
\* every call that names a connection level names that one.  The job is sent
\* through it exactly once when every call made on the job resolves; when a
\* call on the job rejects the job is sent through no channel, and the last
\* call is the job.log that reports the error.
C16_HighestSeverityWins ==
    switchReport.outcome = "resolved" =>
        /\ C16_Levels \subseteq {C16_Channel}
        /\ ~C16_HostFailed =>
              /\ C16_Levels = {C16_Channel}
              /\ C16_TimesSent = 1
        /\ C16_HostFailed =>
              /\ C16_TimesSent = 0
              /\ switchReport.sent[Len(switchReport.sent)] = HostCall("log", "error", TRUE)

\* A report that got an error row first and warning and success rows after
\* it went out through the error channel, renamed, on a job whose calls all
\* resolved
C16_Witness ==
    /\ switchReport.outcome = "resolved"
    /\ switchReport.added = <<"error", "warning", "success">>
    /\ switchReport.newName
    /\ ~C16_HostFailed
    /\ C16_TimesSent = 1
    /\ C16_Levels = {"error"}

\* s ends with the characters of t
C17_EndsWith(s, t) ==
    Len(s) >= Len(t) /\ SubSeq(s, Len(s) - Len(t) + 1, Len(s)) = t

\* C17 as stated: the call fails before any file is read when the variable
\* is unset or empty and when its value does not end in .json.
C17_ConfigAsStated ==
    (/\ configResult.called
     /\ \/ configResult.env \in {EnvUnset, <<>>}
        \/ ~C17_EndsWith(configResult.env, JsonExt)) =>
        configResult.outcome = "threw" /\ configResult.reads = <<>>

\* C17: the call fails before any file is read when the variable is unset
\* or empty, and when the extension path.parse finds in its value is not
\* exactly .json (path.parse ignores separators at the end of the path, and
\* finds no extension in a base name that is only ".json"); a file is read
\* only when both checks pass, and it is then the file the value names.
C17_ConfigFailsBeforeIO ==
    configResult.called =>
        /\ configResult.env \in {EnvUnset, <<>>} =>
              configResult.outcome = "threw" /\ configResult.reads = <<>>
        /\ (configResult.env # EnvUnset /\ PathExt(configResult.env) # JsonExt) =>
              configResult.outcome = "threw" /\ configResult.reads = <<>>
        /\ configResult.reads # <<>> =>
              /\ configResult.env \notin {EnvUnset, <<>>}
              /\ PathExt(configResult.env) = JsonExt
              /\ configResult.reads = <<configResult.env>>

\* The variable named a path whose extension is .JSON: the call failed and
\* read nothing
C17_Witness ==
    /\ configResult.called
    /\ configResult.env = ConfigUpper
    /\ configResult.outcome = "threw"
    /\ configResult.reads = <<>>

(***************************************************************************)
(* FindInLocation: directories as containers and as candidates; the scan   *)
(* and the answer.                                                         *)
(***************************************************************************)
\* Full paths of every directory below the directory `dir` whose path is `prefix`
RECURSIVE AllDirs(_, _)
AllDirs(dir, prefix) ==
    UNION { IF isDirectory(dir[i])
            THEN LET p == prefix \o <<"/">> \o dir[i].name
                 IN  {p} \cup AllDirs(dir[i].children, p)
            ELSE {}
          : i \in 1..Len(dir) }

\* The entry with path p lies somewhere below the directory with path d
IsInside(p, d) ==
    /\ Len(p) > Len(d) + 1
    /\ SubSeq(p, 1, Len(d) + 1) = d \o <<"/">>

\* The directories a scan with this depth has to read: the root and every
\* directory at most depth - 1 levels below it
DirsWithinDepth(d) ==
    {findCall.haystack}
    \cup {p \in AllDirs(HaystackEntries, HaystackRoot) : LevelBelowRoot(p) + 1 <= d}

\* C25: a directory within the remaining depth is descended into whether or
\* not its name matches; it is tested as a candidate only after the descent,
\* so every match found inside a directory is pushed before the directory's
\* own match; with lookFor = files no directory is returned, though entries
\* inside directories are.
C25_ContainerThenCandidate ==
    Scanned =>
        LET r == findResult.response
            d == findCall.options.depth
        IN  /\ \A i \in 1..Len(r.tested) :
                  (r.tested[i].isDir /\ LevelBelowRoot(r.tested[i].path) + 1 <= d)
                      => \E k \in 1..Len(r.reads) : r.reads[k] = r.tested[i].path
            /\ \A j, k \in 1..Len(r.pushed) :
                  IsInside(r.pushed[j], r.pushed[k]) => j < k
            /\ FindOptions(findCall.options).lookFor = "files"
                  => \A i \in 1..Len(r.tested) :
                        r.tested[i].returned => ~r.tested[i].isDir

\* A scan returned a directory and, before it, an entry found inside it, and
\* it read a directory whose own name did not match
C25_Witness ==
    /\ Scanned
    /\ \E j, k \in 1..Len(findResult.response.pushed) :
          /\ IsInside(findResult.response.pushed[j], findResult.response.pushed[k])
          /\ j < k
    /\ \E i \in 1..Len(findResult.response.tested) :
          /\ findResult.response.tested[i].isDir
          /\ ~findResult.response.tested[i].returned
          /\ \E k \in 1..Len(findResult.response.reads) :
                findResult.response.reads[k] = findResult.response.tested[i].path

\* A scan with lookFor = files returned a file that lies inside a directory
\* whose name matched the needle
C25_FilesWitness ==
    /\ Scanned
    /\ FindOptions(findCall.options).lookFor = "files"
    /\ \E j \in 1..Len(findResult.response.pushed) :
          LevelBelowRoot(findResult.response.pushed[j]) >= 1

\* C29: when the promise of FindInLocation resolves with the response, no
\* scanFolder call is still to run: every directory within the depth bound
\* has been read, every entry of those directories has been tested, and the
\* counters say so, so nothing is left that could change the response later.
C29_ScanCompleteAtResolve ==
    Scanned =>
        LET r == findResult.response
            d == findCall.options.depth
        IN  /\ r.pending = <<>>
            /\ {r.reads[k] : k \in 1..Len(r.reads)} = DirsWithinDepth(d)
            /\ {r.tested[i].path : i \in 1..Len(r.tested)}
                   = {p \in AllPaths(HaystackEntries, HaystackRoot) : LevelBelowRoot(p) <= d}
            /\ r.stats.foldersScanned = Cardinality(DirsWithinDepth(d))
            /\ r.stats.entitiesTested = Len(r.tested)
            /\ r.stats.resultsFound = Len(r.pushed)

\* A scan that went two directories down and found a match there
C29_Witness ==
    /\ Scanned
    /\ findCall.options.depth = MaxDepth
    /\ Len(findResult.response.reads) = MaxDepth + 1
    /\ \E k \in 1..Len(findResult.response.pushed) :
          LevelBelowRoot(findResult.response.pushed[k]) = MaxDepth

(***************************************************************************)
(* SwitchReport: the counts and the entries.                               *)
(***************************************************************************)
\* Number of rendered rows of the report that carry this colour
C26_Rendered(color) ==
    Cardinality({i \in 1..Len(switchReport.options.Rows) :
                    switchReport.options.Rows[i].color = color})

\* C26: after any sequence of addErrorRow, addWarningRow, addSuccessRow and
\* addRow calls each severity's count (ErrorCount, WarningCount,
\* SuccessCount) equals the number of entries of that severity the report
\* holds: the messages of ListErrors, ListWarnings, ListSuccess and the
\* rendered rows of that severity.
C26_CountsMatchEntries ==
    LET o == switchReport.options
    IN  /\ o.RowCounts.Error = Len(o.MessageByType.Error)
        /\ o.RowCounts.Warning = Len(o.MessageByType.Warning)
        /\ o.RowCounts.Success = Len(o.MessageByType.Success)
        /\ o.RowCounts.Error = C26_Rendered("bg-error")
        /\ o.RowCounts.Warning = C26_Rendered("bg-warning")
        /\ o.RowCounts.Success = C26_Rendered("bg-success")

\* What the counts do hold: the number of add...Row calls of each severity,
\* so a call changes the count of its own severity only
C26_CountsAreCalls ==
    LET o == switchReport.options
        calls(sev) == Cardinality({i \in 1..Len(switchReport.added) :
                                      switchReport.added[i] = sev})
    IN  /\ o.RowCounts.Error = calls("error")
        /\ o.RowCounts.Warning = calls("warning")
        /\ o.RowCounts.Success = calls("success")

(***************************************************************************)
(* OutgoingConnectionManager: the order of delivery.                       *)
(***************************************************************************)
\* Positions in the calls of the last send at which this host call was made
C27_At(op) == {i \in 1..Len(host.calls) : host.calls[i].op = op}

\* A host call of the last send was made and failed
C27_Failed(op) == \E i \in C27_At(op) : ~host.calls[i].ok

\* C27: on success / warning / error with a report the child job is created
\* and sent to the log connection at that level before the primary job is
\* sent to the data connection at that level; when a host call of the
\* sequence fails the error is logged with job.log at level error and the
\* call still resolves; when creating or sending the report fails sendToData
\* is never called.
C27_DeliveryOrder ==
    (host.fn = "send" /\ host.report = "exists") =>
        /\ host.outcome \in {"pending", "resolved"}
        /\ \A d \in C27_At("sendToData") :
              /\ host.calls[d].level = host.level
              /\ \E c \in C27_At("createChild") : \E l \in C27_At("sendToLog") :
                    /\ c < l /\ l < d
                    /\ host.calls[c].ok /\ host.calls[l].ok
                    /\ host.calls[l].level = host.level
        /\ Cardinality(C27_At("sendToData")) <= 1
        /\ (C27_Failed("createChild") \/ C27_Failed("sendToLog"))
              => C27_At("sendToData") = {}
        /\ host.fail = "none" => C27_At("log") = {}
        /\ host.outcome = "resolved" =>
              /\ (\E op \in HostCalls : C27_Failed(op))
                    <=> (/\ host.calls # <<>>
                         /\ host.calls[Len(host.calls)] = HostCall("log", "error", TRUE))
              /\ host.fail = "none" => C27_At("sendToData") # {}

\* A send with a report on a job whose sendToLog fails: the child job was
\* created, the failure was logged, nothing went to the data connection
C27_Witness ==
    /\ host.fn = "send" /\ host.report = "exists" /\ host.outcome = "resolved"
    /\ C27_Failed("sendToLog")
    /\ C27_At("createChild") # {}
    /\ C27_At("log") # {}

\* A send with a report on a job whose calls all resolve delivered both
C27_DeliveredWitness ==
    /\ host.fn = "send" /\ host.report = "exists" /\ host.fail = "none"
    /\ host.outcome = "resolved"
    /\ C27_At("sendToLog") # {} /\ C27_At("sendToData") # {}

(***************************************************************************)
(* GenerateNewName: the shape of the name.                                 *)
(***************************************************************************)
\* n in decimal, padded with zeros on the left to at least `width` digits
RECURSIVE C23_Padded(_, _)
C23_Padded(n, width) ==
    IF Len(NumberToString(n)) >= width THEN NumberToString(n)
    ELSE <<"0">> \o C23_Padded(n, width - 1)

\* The 17 digits YYYYMMDDhhmmssmmm of an instant, the month as on the calendar
C23_Timestamp(d) ==
    C23_Padded(d.year, 4) \o C23_Padded(d.month, 2) \o C23_Padded(d.date, 2)
    \o C23_Padded(d.hours, 2) \o C23_Padded(d.minutes, 2) \o C23_Padded(d.seconds, 2)
    \o C23_Padded(d.ms, 3)

\* C23: GenerateNewName(prefix, suffix) returns
\* [prefix_]YYYYMMDDhhmmssmmm_<random>[_suffix]: the 17 digits of the current
\* UTC instant with the calendar month 01-12 and three digits of
\* milliseconds, a random integer of 0..999999999999 (at most twelve
\* digits), and the prefix and suffix segments exactly when the argument is
\* not empty.
C23_NameFormat ==
    host.fn = "GenerateNewName" =>
        LET head == (IF host.prefix # <<>> THEN host.prefix \o <<"_">> ELSE <<>>)
                    \o C23_Timestamp(host.instant) \o <<"_">>
            tail == IF host.suffix # <<>> THEN <<"_">> \o host.suffix ELSE <<>>
            n == Len(host.name)
            random == SubSeq(host.name, Len(head) + 1, n - Len(tail))
        IN  /\ n >= Len(head) + 1 + Len(tail)
            /\ SubSeq(host.name, 1, Len(head)) = head
            /\ SubSeq(host.name, n - Len(tail) + 1, n) = tail
            /\ Len(random) \in 1..RandomShift
            /\ \A i \in 1..Len(random) : \E k \in 1..10 : random[i] = DigitChars[k]

(***************************************************************************)
(* Temporary files and datasets.                                           *)
(***************************************************************************)
\* The events of the last CreateNewTmpFile or CreateDataSet call that are
\* of this kind
TmpEvents(op) ==
    {i \in 1..Len(host.result.events) : host.result.events[i].op = op}

\* C24: CreateNewTmpFile with overwrite = false, and CreateDataSet with the
\* JSON model, never write to a path that exists when they check it, so no
\* existing file is replaced, and the path returned or handed to
\* job.createDataset is the path that was written.
C24_NoCollision ==
    /\ (host.fn = "CreateNewTmpFile" /\ ~host.call.overwrite) =>
          /\ \A i \in TmpEvents("write") :
                /\ ~host.result.events[i].existed
                /\ ~existsSync(host.call.files, host.result.events[i].path)
          /\ FsPaths(host.call.files) \subseteq FsPaths(host.result.files)
          /\ host.result.outcome = "returned" =>
                /\ Cardinality(TmpEvents("write")) = 1
                /\ \A i \in TmpEvents("write") :
                      host.result.events[i].path = host.result.value
    /\ (host.fn = "CreateDataSet" /\ host.call.datasetModel = "JSON") =>
          /\ \A i \in TmpEvents("write") :
                /\ ~host.result.events[i].existed
                /\ ~existsSync(host.call.files, host.result.events[i].path)
          /\ \A j \in TmpEvents("createDataset") :
                /\ Cardinality(TmpEvents("write")) = 1
                /\ \A i \in TmpEvents("write") :
                      host.result.events[i].path = host.result.events[j].path

\* CreateNewTmpFile without overwrite was asked for a file that exists, the
\* first other name it tried exists as well, and it wrote a third
C24_Witness ==
    /\ host.fn = "CreateNewTmpFile" /\ ~host.call.overwrite
    /\ host.call.location = TmpFile
    /\ {TmpFile, RenamedTmpFile} \subseteq FsPaths(host.call.files)
    /\ host.result.outcome = "returned"
    /\ host.result.value \notin {TmpFile, RenamedTmpFile}

\* CreateDataSet with the JSON model found its first name taken and wrote
\* and handed over another
C24_DataSetWitness ==
    /\ host.fn = "CreateDataSet" /\ host.call.datasetModel = "JSON"
    /\ existsSync(host.call.files, DatasetLocation(TmpDir, T1))
    /\ host.result.outcome = "returned"
    /\ host.result.value = DatasetLocation(TmpDir, T2)

\* The temp directory a CreateDataSet call ends up with: the one passed, or
\* the one of the configuration file when none was passed and the file can
\* be read; undefined otherwise
C28_TempDir ==
    IF host.call.tmp_file_store # <<Undefined>> THEN host.call.tmp_file_store
    ELSE IF GetGlobalSwitchConfig(host.call.env).outcome = "returned" THEN host.call.configTmp
    ELSE <<Undefined>>

\* The call passes validation as the claim lists it
C28_Valid ==
    /\ host.call.datasetModel \in {"JSON", "Opaque"}
    /\ host.call.datasetModel = "JSON" => host.call.data.type = "object"
    /\ host.call.datasetModel = "Opaque" => host.call.data.type = "string"
    /\ host.call.datasetName \notin {<<>>, <<Undefined>>}
    /\ C28_TempDir # <<Undefined>>
    /\ existsSync(host.call.files, C28_TempDir)

\* C28: when validation fails CreateDataSet creates no file and never calls
\* job.createDataset; a valid JSON call writes the temp file and then calls
\* job.createDataset exactly once, with that file's path; a valid Opaque
\* call creates no file and passes the caller's path through.
C28_CallOrdering ==
    (host.fn = "CreateDataSet" /\ host.releases = 0) =>
        LET ev == host.result.events
        IN  /\ ~C28_Valid =>
                  /\ host.result.outcome = "threw"
                  /\ ev = <<>>
                  /\ host.result.files = host.call.files
            /\ (C28_Valid /\ host.call.datasetModel = "JSON"
                          /\ host.result.outcome # "looping") =>
                  /\ Len(ev) = 2
                  /\ ev[1].op = "write" /\ ev[2].op = "createDataset"
                  /\ existsSync(host.result.files, ev[1].path)
                  /\ ev[2].path = ev[1].path
                  /\ ev[2].name = host.call.datasetName
                  /\ ev[2].model = "JSON"
            /\ (C28_Valid /\ host.call.datasetModel = "Opaque") =>
                  /\ Len(ev) = 1
                  /\ ev[1].op = "createDataset"
                  /\ ev[1].path = host.call.data.path
                  /\ ev[1].model = "Opaque"
                  /\ host.result.files = host.call.files

\* A valid JSON call whose temp directory came from the configuration file
\* wrote its file and called job.createDataset
C28_Witness ==
    /\ host.fn = "CreateDataSet" /\ host.releases = 0
    /\ C28_Valid
    /\ host.call.datasetModel = "JSON"
    /\ host.call.tmp_file_store = <<Undefined>>
    /\ host.result.outcome = "returned"
    /\ Len(host.result.events) = 2

\* A call with an empty dataset name and everything else in order failed
C28_InvalidWitness ==
    /\ host.fn = "CreateDataSet"
    /\ host.call.datasetName = <<>>
    /\ host.call.datasetModel = "JSON" /\ host.call.data.type = "object"
    /\ host.call.tmp_file_store = TmpDir
    /\ host.result.outcome = "threw"

\* C30: removeTmpFiles deletes only the temporary file this CreateDataSet
\* call created: every path it unlinks is a path the call wrote, so a file
\* the caller supplied (the data path of an Opaque dataset) is never deleted.
C30_ReleasesOnlyOwnFile ==
    host.fn = "CreateDataSet" =>
        /\ \A k \in 1..Len(host.unlinked) :
              \E i \in TmpEvents("write") :
                  host.result.events[i].path = host.unlinked[k].path
        /\ host.call.data.type = "string" =>
              (existsSync(host.call.files, host.call.data.path)
                  => existsSync(host.result.files, host.call.data.path))

\* What does hold of removeTmpFiles: it deletes at most one file however
\* often it is called, and that file is the location the call handed to
\* job.createDataset
C30_ReleasesOnce ==
    host.fn = "CreateDataSet" =>
        /\ Len(host.unlinked) <= 1
        /\ \A k \in 1..Len(host.unlinked) :
              \E j \in TmpEvents("createDataset") :
                  host.result.events[j].path = host.unlinked[k].path

(***************************************************************************)
(* GetDataSet: failures of the host.                                       *)
(***************************************************************************)
\* The warnings this function logged in the last DataSetExists or
\* GetDataSet call
C22_Warnings(from) ==
    {i \in 1..Len(host.calls) :
        host.calls[i] = DataSetCall("log", "warning", from)}

\* C22: when the dataset is not listed, or listDatasets, getDataset, the
\* read or the parse fails, GetDataSet logs exactly one warning of its own,
\* as the last thing it does, and then throws a string; otherwise it
\* returns and logs nothing.  DataSetExists never throws; it returns true
\* exactly when the name is listed, and false with one warning when
\* listDatasets fails.
C22_HostErrors ==
    /\ (host.fn = "GetDataSet" /\ host.outcome # "pending") =>
          IF host.list # "with" \/ host.get # "json"
          THEN /\ host.outcome = "threw"
               /\ host.thrown = "string"
               /\ Cardinality(C22_Warnings("GetDataSet")) = 1
               /\ Len(host.calls) \in C22_Warnings("GetDataSet")
               /\ \A i \in 1..Len(host.calls) :
                     host.calls[i].op = "getDataset" => host.list = "with"
          ELSE /\ host.outcome = "returned"
               /\ \A i \in 1..Len(host.calls) : host.calls[i].op # "log"
    /\ (host.fn = "DataSetExists" /\ host.outcome # "pending") =>
          /\ host.outcome = "returned"
          /\ host.value <=> host.list = "with"
          /\ Cardinality(C22_Warnings("DataSetExists"))
                = (IF host.list = "fails" THEN 1 ELSE 0)

\* GetDataSet on a job whose listDatasets fails: DataSetExists logged its
\* warning, GetDataSet logged its own and threw
C22_Witness ==
    /\ host.fn = "GetDataSet"
    /\ host.list = "fails"
    /\ host.outcome = "threw"
    /\ C22_Warnings("DataSetExists") # {}
    /\ C22_Warnings("GetDataSet") # {}

\* GetDataSet on a job that lists the dataset and hands out a file that
\* holds no JSON
C22_ParseWitness ==
    /\ host.fn = "GetDataSet"
    /\ host.list = "with" /\ host.get = "badjson"
    /\ host.outcome = "threw"

====
